---- MODULE Spec2Model ----
(***************************************************************************)
(* Resilient step-execution orchestrator of the web-scraper agent:         *)
(* ErrorClassifier, RetryManager, the run loop of WebAutomationAgent,      *)
(* RateLimiter and Paginator.                                              *)
(*                                                                         *)
(* Time is counted in milliseconds.  A coroutine runs atomically between   *)
(* two awaits (asyncio is cooperative), so one action is the code between  *)
(* two suspension points.  `await asyncio.sleep(x)` with x > 0 suspends    *)
(* the caller for at least x; it may be woken late.                        *)
(***************************************************************************)
EXTENDS Integers, Sequences, FiniteSets, TLC

VARIABLES
    now,                \* time.time(), in ms
    request_history,    \* RateLimiter.request_history   (domain -> list of times)
    domain_delays,      \* RateLimiter.domain_delays     (domain -> delay)
    last_request_time,  \* RateLimiter.last_request_time (domain -> time)
    global_last_request,\* RateLimiter.global_last_request
    rl,                 \* one wait_if_needed activation per task
    wait_calls,         \* number of wait_if_needed calls started so far
    config_calls,       \* number of delay-setting calls made so far
    returns,            \* history: the wait_if_needed calls that returned
    requested,          \* history: the last set_domain_delay(d, D) per key d
    failure_counts,     \* RetryManager.failure_counts      (dict name -> int)
    retry,              \* one execute_with_retry activation per caller
    calls_made,         \* number of execute_with_retry calls started so far
    failed_since,       \* history: failed attempts per name since the last
                        \* success or explicit reset under that name
    run,                \* WebAutomationAgent.run: its locals and its position
    ops,                \* history: the latest network-bound operation of the run
    log,                \* history: what became of the step in hand
    pag,                \* Paginator.auto_paginate: max_pages, its position, how
                        \* it last changed page and how many items it dropped
    all_data,           \* auto_paginate's all_data
    seen_hashes,        \* auto_paginate's seen_hashes
    page_num,           \* auto_paginate's page_num
    extracted,          \* history: the items the extract_fn calls returned
    probe               \* the latest call of a pure function: its input, its result

retryVars == <<failure_counts, retry, calls_made, failed_since>>

rateVars == <<now, request_history, domain_delays, last_request_time,
              global_last_request, rl, wait_calls, config_calls, returns, requested>>

vars == <<now, request_history, domain_delays, last_request_time,
          global_last_request, rl, wait_calls, config_calls, returns, requested,
          failure_counts, retry, calls_made, failed_since, run, ops, log,
          pag, all_data, seen_hashes, page_num, extracted, probe>>

pagVars == <<pag, all_data, seen_hashes, page_num, extracted>>

runVars == <<run, ops, log>>

----------------------------------------------------------------------------
(* Bounds of the model *)

MaxRetriesBound == 2    \* max_retries is drawn from -1 .. MaxRetriesBound
MaxCalls == 3           \* execute_with_retry calls explored per behaviour
MaxWaitCalls == 3       \* wait_if_needed calls explored per behaviour
MaxConfigCalls == 1     \* delay-setting calls explored per behaviour
Horizon == 1000         \* idle time (ms) that may pass besides the sleeps

----------------------------------------------------------------------------
(* Python dictionaries: a function whose DOMAIN is the set of keys present *)

EmptyDict == [k \in {} |-> 0]

None == "None"

DictGet(d, k, default) == IF k \in DOMAIN d THEN d[k] ELSE default

DictPut(d, k, v) == [x \in (DOMAIN d) \cup {k} |-> IF x = k THEN v ELSE d[x]]

Max(a, b) == IF a >= b THEN a ELSE b

Min(a, b) == IF a <= b THEN a ELSE b

RECURSIVE Pow(_, _)
Pow(b, n) == IF n <= 0 THEN 1 ELSE b * Pow(b, n - 1)

----------------------------------------------------------------------------
(* ErrorClassifier                                                         *)
(*                                                                         *)
(* A failure is its type name and the keywords of the cascade that occur   *)
(* in str(error).lower().  A keyword that is a substring of another        *)
(* keyword occurs wherever the longer one does.                            *)

SubKeywords ==
    { <<"javascript", "script">>, <<"recaptcha", "captcha">>,
      <<"hcaptcha", "captcha">>, <<"out of memory", "memory">> }

In(kw, e) ==
    \/ kw \in e.words
    \/ \E k \in e.words : <<k, kw>> \in SubKeywords

AnyIn(kws, e) == \E kw \in kws : In(kw, e)

classify_error_type_name(e) == e.type

classify_error_cpu_first(e) ==
    IF In("cpu", e) \/ (In("timeout", e) /\ In("script", e)) THEN "cpu_timeout"
    ELSE IF e.type = "TimeoutError" \/ In("timeout", e) THEN "timeout"
    ELSE "unknown"

classify_error(e) ==
    IF AnyIn({"dns", "name resolution", "nodename nor servname"}, e) THEN "dns_error"
    ELSE IF In("ssl", e) \/ In("tls", e) \/ In("certificate", e) THEN "ssl_error"
    ELSE IF In("connection refused", e) \/ In("connection reset", e) THEN "connection_error"
    ELSE IF In("network", e) /\ In("unreachable", e) THEN "network_unreachable"
    ELSE IF In("429", e) \/ In("too many requests", e) \/ In("rate limit", e) THEN "rate_limit"
    ELSE IF In("403", e) \/ In("forbidden", e) THEN "forbidden"
    ELSE IF In("404", e) \/ In("not found", e) THEN "not_found"
    ELSE IF In("500", e) \/ In("502", e) \/ In("503", e) \/ In("504", e) THEN "server_error"
    ELSE IF e.type = "TimeoutError" \/ In("timeout", e) THEN "timeout"
    ELSE IF In("selector", e) \/ In("element", e) \/ In("locator", e) THEN "selector_not_found"
    ELSE IF In("stale", e) /\ In("element", e) THEN "stale_element"
    ELSE IF In("frame", e) /\ (In("not found", e) \/ In("detached", e)) THEN "frame_error"
    ELSE IF In("dialog", e) \/ In("alert", e) \/ In("popup", e) THEN "dialog_error"
    ELSE IF AnyIn({"captcha", "recaptcha", "hcaptcha"}, e) THEN "captcha_detected"
    ELSE IF AnyIn({"cloudflare", "challenge", "verification"}, e) THEN "bot_detection"
    ELSE IF In("blocked", e) \/ In("banned", e) THEN "ip_blocked"
    ELSE IF In("json", e) /\ (In("parse", e) \/ In("decode", e)) THEN "json_parse_error"
    ELSE IF In("encoding", e) \/ In("charset", e) \/ In("unicode", e) THEN "encoding_error"
    ELSE IF In("javascript", e) \/ In("script", e) \/ In("eval", e) THEN "javascript_error"
    ELSE IF In("memory", e) \/ In("out of memory", e) THEN "memory_error"
    ELSE IF In("cpu", e) \/ (In("timeout", e) /\ In("script", e)) THEN "cpu_timeout"
    ELSE IF In("disk", e) \/ In("space", e) THEN "disk_space_error"
    ELSE IF In("ajax", e) \/ In("xhr", e) \/ In("fetch", e) THEN "ajax_error"
    ELSE IF In("websocket", e) THEN "websocket_error"
    ELSE IF In("race", e) \/ In("timing", e) THEN "race_condition"
    ELSE IF AnyIn({"geo", "region", "location", "blocked"}, e) THEN "geo_blocked"
    ELSE IF In("cookie", e) \/ In("localstorage", e) THEN "storage_error"
    ELSE "unknown"

severity_map ==
    [k \in {"bot_detection", "ip_blocked", "geo_blocked", "memory_error", "disk_space_error",
            "dns_error", "ssl_error", "connection_error", "server_error", "rate_limit",
            "forbidden", "captcha_detected",
            "timeout", "network_unreachable", "page_load_error", "javascript_error",
            "json_parse_error", "encoding_error", "cpu_timeout",
            "selector_not_found", "stale_element", "frame_error", "dialog_error",
            "not_found", "data_extraction_error", "ajax_error", "websocket_error",
            "race_condition", "storage_error",
            "unknown"} |->
        CASE k \in {"bot_detection", "ip_blocked", "geo_blocked",
                    "memory_error", "disk_space_error"} -> "critical"
          [] k \in {"dns_error", "ssl_error", "connection_error", "server_error",
                    "rate_limit", "forbidden", "captcha_detected"} -> "high"
          [] k \in {"timeout", "network_unreachable", "page_load_error",
                    "javascript_error", "json_parse_error", "encoding_error",
                    "cpu_timeout", "unknown"} -> "medium"
          [] OTHER -> "low"]

get_error_severity(error_type) == DictGet(severity_map, error_type, "medium")

no_retry_types ==
    {"bot_detection", "ip_blocked", "geo_blocked", "captcha_detected",
     "forbidden", "not_found", "memory_error", "disk_space_error"}

limited_retry_types == {"dns_error", "ssl_error", "server_error"}

should_retry_always(error_type) == TRUE

should_retry_unlimited_only(error_type) ==
    error_type \notin no_retry_types \cup limited_retry_types

should_retry(error_type) ==
    IF error_type \in no_retry_types THEN FALSE
    ELSE IF error_type \in limited_retry_types THEN TRUE
    ELSE TRUE

(* The eight kinds the design names as never retried *)
NonRetryableKinds ==
    {"bot_detection", "ip_blocked", "geo_blocked", "captcha_detected",
     "forbidden", "not_found", "memory_error", "disk_space_error"}

(* The failures the modelled operations raise *)
Exc(type, words) == [type |-> type, words |-> words]

E_rate_limit == Exc("Exception", {"429"})
E_timeout == Exc("TimeoutError", {})
E_forbidden == Exc("Exception", {"403"})
E_memory == Exc("Exception", {"out of memory"})
E_captcha == Exc("Exception", {"captcha"})
E_unknown == Exc("Exception", {})

----------------------------------------------------------------------------
(* RateLimiter                                                             *)

global_min_delay == 1000

MinDomainDelay == 100

HistoryLimit == 100

Epoch == 1000000

(* Host names as they are written in URLs and passed as keys *)
Netlocs == {"d.com", "D.com", "e.com"}

(* str.lower() on the host names of the model *)
Lower(netloc) == IF netloc = "D.com" THEN "d.com" ELSE netloc

Url(netloc) == [scheme |-> "https", netloc |-> netloc, path |-> "/"]

Urls == {Url(n) : n \in Netlocs}

(* _extract_domain: urlparse(url).netloc.lower() *)
extract_domain_raw(url) == url.netloc

extract_domain(url) == Lower(url.netloc)

IdleWait ==
    [pc |-> "idle", url |-> Url("d.com"), domain |-> None, now |-> 0, wake_at |-> 0,
     requested |-> 0, returned_before |-> 0]

(* lines 60-63: append and keep the last 100 *)
KeepWholeHistory(history) == history

TrimHistory(history) ==
    IF Len(history) > HistoryLimit THEN Tail(history) ELSE history

(* lines 56-63, at time t: the timestamps are written and the call returns *)
FinishPhase(task, w, t) ==
    /\ last_request_time' = [last_request_time EXCEPT ![w.domain] = t]
    /\ global_last_request' = t
    /\ request_history' =
           [request_history EXCEPT ![w.domain] = TrimHistory(Append(@, w.now))]
    /\ rl' = [rl EXCEPT ![task] = IdleWait]
    /\ returns' = Append(returns,
           [task |-> task, netloc |-> w.url.netloc, started |-> w.now, at |-> t,
            requested_before |-> w.requested,
            returned_before |-> w.returned_before,
            requested |-> requested[w.url.netloc]])

(* lines 46-54, at time t *)
DomainPhase(task, w, t) ==
    LET domain_delay == domain_delays[w.domain]
        last_domain_request == last_request_time[w.domain]
        domain_wait == Max(0, domain_delay - (w.now - last_domain_request))
    IN  IF domain_delay > 0 /\ domain_wait > 0
        THEN /\ rl' = [rl EXCEPT ![task] =
                    [w EXCEPT !.pc = "domain_sleep", !.wake_at = t + domain_wait]]
             /\ UNCHANGED <<request_history, last_request_time,
                            global_last_request, returns>>
        ELSE FinishPhase(task, w, t)

(* lines 37-44: the call, up to its first suspension or its return *)
WaitStartCore(task, url) ==
    LET w == [IdleWait EXCEPT !.url = url, !.domain = extract_domain(url), !.now = now,
                              !.requested = requested[url.netloc],
                              !.returned_before = Len(returns)]
        global_wait == Max(0, global_min_delay - (now - global_last_request))
    IN  /\ rl[task].pc = "idle"
        /\ IF global_wait > 0
           THEN /\ rl' = [rl EXCEPT ![task] =
                       [w EXCEPT !.pc = "global_sleep", !.wake_at = now + global_wait]]
                /\ UNCHANGED <<request_history, last_request_time,
                               global_last_request, returns>>
           ELSE DomainPhase(task, w, now)
        /\ UNCHANGED <<now, domain_delays, requested>>

(* line 44: asyncio.sleep(global_wait) is over, at the due time or later *)
WakeGlobalCore(task) ==
    /\ rl[task].pc = "global_sleep"
    /\ now' = Max(now, rl[task].wake_at)
    /\ DomainPhase(task, rl[task], now')
    /\ UNCHANGED <<domain_delays, requested>>

(* line 54: asyncio.sleep(domain_wait) is over *)
WakeDomainCore(task) ==
    /\ rl[task].pc = "domain_sleep"
    /\ now' = Max(now, rl[task].wake_at)
    /\ FinishPhase(task, rl[task], now')
    /\ UNCHANGED <<domain_delays, requested>>

(* set_domain_delay, line 24 *)
DomainDelayUnclamped(delay) == delay

DomainDelayFloor(delay) == Max(delay, MinDomainDelay)

set_domain_delay(domain, delay) ==
    /\ domain_delays' = [domain_delays EXCEPT ![domain] = DomainDelayFloor(delay)]
    /\ requested' = [requested EXCEPT ![domain] = delay]

(* update_from_retry_after, lines 29-32 *)
update_from_retry_after(domain, retry_after) ==
    LET current_delay == domain_delays[domain]
        new_delay == Max(current_delay, (retry_after * 12) \div 10)
    IN  set_domain_delay(domain, new_delay)

(* set_polite_delay, lines 90-95 *)
set_polite_delay(domain, requests_per_minute) ==
    LET delay == IF requests_per_minute <= 0 THEN 100
                 ELSE 60000 \div requests_per_minute
    IN  set_domain_delay(domain, delay)

RateIdle ==
    /\ now = Epoch
    /\ request_history = [d \in Netlocs |-> <<>>]
    /\ domain_delays = [d \in Netlocs |-> 0]
    /\ last_request_time = [d \in Netlocs |-> 0]
    /\ global_last_request = 0
    /\ rl = [t \in {"w1", "w2", "run"} |-> IdleWait]
    /\ wait_calls = 0
    /\ config_calls = 0
    /\ returns = <<>>
    /\ requested = [d \in Netlocs |-> 0]

----------------------------------------------------------------------------
(* RetryManager                                                            *)
(*                                                                         *)
(* last_retry_times (written at line 60, read by get_failure_stats only)   *)
(* decides nothing in the code and is left out; a sleep is its duration.   *)

(* retry_after = None *)
NoHint == -1

base_delays(error_type) ==
    CASE error_type = "dns_error" -> 2000
      [] error_type = "ssl_error" -> 3000
      [] error_type = "connection_error" -> 1000
      [] error_type = "network_unreachable" -> 5000
      [] error_type = "rate_limit" -> 60000
      [] error_type = "server_error" -> 10000
      [] error_type = "forbidden" -> 30000
      [] error_type = "not_found" -> 0
      [] error_type = "timeout" -> 5000
      [] error_type = "selector_not_found" -> 1000
      [] error_type = "stale_element" -> 500
      [] error_type = "frame_error" -> 1000
      [] error_type = "dialog_error" -> 2000
      [] error_type = "bot_detection" -> 120000
      [] error_type = "captcha_detected" -> 300000
      [] error_type = "ip_blocked" -> 600000
      [] error_type = "javascript_error" -> 2000
      [] error_type = "json_parse_error" -> 1000
      [] error_type = "encoding_error" -> 1000
      [] error_type = "ajax_error" -> 3000
      [] error_type = "memory_error" -> 10000
      [] error_type = "cpu_timeout" -> 5000
      [] error_type = "disk_space_error" -> 0
      [] error_type = "page_load_error" -> 4000
      [] error_type = "data_extraction_error" -> 1000
      [] error_type = "websocket_error" -> 2000
      [] error_type = "race_condition" -> 1000
      [] error_type = "geo_blocked" -> 0
      [] error_type = "storage_error" -> 1000
      [] OTHER -> 2000

max_delays(error_type) ==
    CASE error_type = "rate_limit" -> 1800000
      [] error_type = "bot_detection" -> 3600000
      [] error_type = "ip_blocked" -> 7200000
      [] OTHER -> 300000

(* random.uniform(0.8, 1.2), in percent *)
JitterPercents == {80, 100, 120}

(* _calculate_delay; jitter is the draw of random.uniform *)
(* Delays are compared with ceilings of at most 7,200,000 ms and the jitter
   is at least 0.8: an exponential delay above DelayHorizon gives the ceiling
   whatever the jitter, so it is cut there to keep the products within the
   integers of the model checker *)
DelayHorizon == 10000000

(* lines 138-142: the growth per attempt, 2 for rate_limit and 1.5 for the
   other kinds, as a fraction *)
growth_slow(error_type) == [num |-> 5, den |-> 4]

growth(error_type) ==
    IF error_type = "rate_limit" THEN [num |-> 2, den |-> 1] ELSE [num |-> 3, den |-> 2]

exponential_delay(error_type, attempt) ==
    Min(DelayHorizon,
        (base_delays(error_type) * Pow(growth(error_type).num, attempt))
            \div Pow(growth(error_type).den, attempt))

calculate_delay_uncapped(error_type, attempt, retry_after, jitter) ==
    IF retry_after # NoHint /\ error_type = "rate_limit"
    THEN (retry_after * 12) \div 10
    ELSE (exponential_delay(error_type, attempt) * jitter) \div 100

calculate_delay(error_type, attempt, retry_after, jitter) ==
    IF retry_after # NoHint /\ error_type = "rate_limit"
    THEN (retry_after * 12) \div 10
    ELSE LET delay == (exponential_delay(error_type, attempt) * jitter) \div 100
         IN  Min(delay, max_delays(error_type))

Callers == {"c1", "c2"}

(* the caller whose calls follow one another *)
OneCaller == {"c1"}

OpNames == {"op_a", "op_b"}

Results == {"r1", "r2"}

RetryAfterHints == {NoHint, 30000}

NoExc == Exc("None", {})

Ok(v) == [ok |-> TRUE, value |-> v, exc |-> NoExc]

Raise(e) == [ok |-> FALSE, value |-> None, exc |-> e]

RetryFailures == {E_rate_limit, E_timeout, E_forbidden, E_memory}

RetryOutcomes == {Ok(v) : v \in Results} \cup {Raise(e) : e \in RetryFailures}

IdleCall ==
    [pc |-> "idle", step_name |-> None, max_retries |-> 0, attempt |-> 0,
     context_retry_after |-> NoHint, retry_after |-> NoHint,
     invocations |-> 0, sleeps |-> 0, all_retryable |-> TRUE,
     nonretry_seen |-> FALSE, last |-> Ok(None), result |-> None, exc |-> NoExc,
     delay |-> 0]

(* line 41: for attempt in range(max_retries + 1) *)
StartCall(step_name, max_retries, context_retry_after, retry_after) ==
    [IdleCall EXCEPT !.pc = IF max_retries + 1 > 0 THEN "invoke" ELSE "returned",
                     !.step_name = step_name,
                     !.max_retries = max_retries,
                     !.context_retry_after = context_retry_after,
                     !.retry_after = retry_after]

(* lines 48-49 *)
SuccessResetKeep(counts, step_name) == counts

SuccessReset(counts, step_name) ==
    IF step_name \in DOMAIN counts THEN DictPut(counts, step_name, 0) ELSE counts

(* line 59 *)
RecordFailureFresh(counts, step_name) == DictPut(counts, step_name, 1)

RecordFailureLost(counts, step_name) ==
    DictPut(counts, step_name, Max(1, DictGet(counts, step_name, 0)))

RecordFailure(counts, step_name) ==
    DictPut(counts, step_name, DictGet(counts, step_name, 0) + 1)

(* line 62 *)
IsFinalAttemptEarly(attempt, max_retries) == attempt + 1 >= max_retries

IsFinalAttempt(attempt, max_retries) == attempt = max_retries

(* lines 42-77: one iteration of the loop, from `await step_func()` finishing
   with outcome o to the return, the raise or the start of the sleep *)
InvokeCore(c, o, jitter) ==
    LET r == retry[c]
        error_type == classify_error(o.exc)
        seen == [r EXCEPT !.invocations = @ + 1, !.last = o]
    IN  /\ r.pc = "invoke"
        /\ IF o.ok
           THEN /\ failure_counts' = SuccessReset(failure_counts, r.step_name)
                /\ failed_since' = [failed_since EXCEPT ![r.step_name] = 0]
                /\ retry' = [retry EXCEPT ![c] =
                       [seen EXCEPT !.pc = "returned", !.result = o.value,
                                    !.all_retryable = FALSE]]
           ELSE /\ failure_counts' = RecordFailure(failure_counts, r.step_name)
                /\ failed_since' = [failed_since EXCEPT ![r.step_name] = @ + 1]
                /\ LET failed == [seen EXCEPT
                           !.all_retryable = @ /\ error_type \notin NonRetryableKinds,
                           !.nonretry_seen = @ \/ error_type \in NonRetryableKinds]
                   IN  IF IsFinalAttempt(r.attempt, r.max_retries)
                       THEN retry' = [retry EXCEPT ![c] =
                                [failed EXCEPT !.pc = "raised", !.exc = o.exc]]
                       ELSE IF ~should_retry(error_type)
                       THEN retry' = [retry EXCEPT ![c] =
                                [failed EXCEPT !.pc = "raised", !.exc = o.exc]]
                       ELSE LET delay == calculate_delay(error_type, r.attempt,
                                             r.context_retry_after, jitter)
                            IN  retry' = [retry EXCEPT ![c] =
                                    [failed EXCEPT !.pc = "sleeping",
                                                   !.sleeps = @ + 1,
                                                   !.delay = delay]]
        /\ UNCHANGED calls_made

(* line 77: asyncio.sleep(delay) is over, the loop goes to the next attempt *)
WakeCore(c) ==
    /\ retry[c].pc = "sleeping"
    /\ retry' = [retry EXCEPT ![c] = [@ EXCEPT !.pc = "invoke", !.attempt = @ + 1]]
    /\ UNCHANGED <<failure_counts, calls_made, failed_since>>

(* reset_failure_count *)
reset_failure_count(step_name) ==
    /\ failure_counts' = IF step_name \in DOMAIN failure_counts
                         THEN DictPut(failure_counts, step_name, 0)
                         ELSE failure_counts
    /\ failed_since' = [failed_since EXCEPT ![step_name] = 0]
    /\ UNCHANGED <<retry, calls_made>>

(* get_failure_stats(step_name)["failure_count"] *)
failure_count(step_name) == DictGet(failure_counts, step_name, 0)

----------------------------------------------------------------------------
(* WebAutomationAgent: the state of one agent before run() is called       *)

NoStep == [action |-> None, comment |-> None, critical |-> FALSE]

IdleRun ==
    [pc |-> "start", max_attempts |-> 0, attempt |-> 0, url |-> Url("d.com"),
     crawl_delay |-> 0, steps |-> <<>>, idx |-> 0, step |-> NoStep,
     recovery_attempted |-> FALSE, exc |-> NoExc, raised_as |-> None]

(* no network-bound operation yet; `waits` counts the wait_if_needed calls
   that had returned when the operation ran, `waits_before` those that had
   returned when the operation before it ran *)
NoOp == [op |-> None, idx |-> 0, recovery |-> FALSE, waits |-> 0, waits_before |-> 0]

NetworkOp(op, idx, recovery) ==
    [op |-> op, idx |-> idx, recovery |-> recovery, waits |-> Len(returns),
     waits_before |-> ops.waits]

(* `before` is what became of the step before this one; `calls` counts the
   execute_with_retry calls made for the step (the entry is made with the
   first one), `fallbacks` the get_fallback_strategy calls *)
NewLogEntry(idx, before) ==
    [idx |-> idx, primary |-> "running", primary_exc |-> NoExc,
     recovery |-> "none", recovery_exc |-> NoExc, outcome |-> "pending",
     before |-> before, calls |-> 1, fallbacks |-> 0]

NoLog == [NewLogEntry(0, None) EXCEPT !.primary = "none", !.outcome = None, !.calls = 0]

RunIdle ==
    /\ run = IdleRun
    /\ ops = NoOp
    /\ log = NoLog

----------------------------------------------------------------------------
(* Paginator: no auto_paginate call is running                             *)

(* history kept in pag: `calls` extract_fn calls were made and returned
   `given` items in all; `first` is what the first call returned and `same`
   tells that every call returned that; `fresh` tells that every call returned
   at least one item and only items of fingerprints not met before;
   `stopped_at` is the call that brought no item of a new fingerprint (0 when
   there was none) and `stopped_len` the length of all_data before it;
   `moves` counts the clicks on a next button and the fallback scrolls *)
NoPag ==
    [pc |-> "idle", max_pages |-> 0, moved |-> None, dropped |-> 0,
     calls |-> 0, given |-> 0, first |-> <<>>, same |-> TRUE, fresh |-> TRUE,
     stopped_at |-> 0, stopped_len |-> 0, moves |-> 0]

NoProbe == [fn |-> None]

PagIdle ==
    /\ pag = NoPag
    /\ probe = NoProbe
    /\ all_data = <<>>
    /\ seen_hashes = {}
    /\ page_num = 0
    /\ extracted = {}

----------------------------------------------------------------------------
(* Callers of one RetryManager *)

Call(c) ==
    /\ retry[c].pc = "idle"
    /\ calls_made < MaxCalls
    /\ \E step_name \in OpNames, max_retries \in -1 .. MaxRetriesBound,
          ctx \in RetryAfterHints, arg \in RetryAfterHints :
           retry' = [retry EXCEPT ![c] = StartCall(step_name, max_retries, ctx, arg)]
    /\ calls_made' = calls_made + 1
    /\ UNCHANGED <<failure_counts, failed_since, rateVars, runVars, pagVars, probe>>

Invoke(c) ==
    /\ \E o \in RetryOutcomes, jitter \in JitterPercents : InvokeCore(c, o, jitter)
    /\ UNCHANGED <<rateVars, runVars, pagVars, probe>>

Wake(c) == WakeCore(c) /\ UNCHANGED <<rateVars, runVars, pagVars, probe>>

(* the caller takes the result or the failure *)
Done(c) ==
    /\ retry[c].pc \in {"returned", "raised"}
    /\ retry' = [retry EXCEPT ![c] = IdleCall]
    /\ UNCHANGED <<failure_counts, calls_made, failed_since, rateVars, runVars, pagVars, probe>>

Reset ==
    /\ \E step_name \in OpNames : reset_failure_count(step_name)
    /\ UNCHANGED <<rateVars, runVars, pagVars, probe>>

InitRetry ==
    /\ RateIdle
    /\ RunIdle
    /\ PagIdle
    /\ failure_counts = EmptyDict
    /\ retry = [c \in Callers |-> IdleCall]
    /\ calls_made = 0
    /\ failed_since = [n \in OpNames |-> 0]

NextRetry ==
    \/ \E c \in OneCaller : Call(c)
    \/ \E c \in OneCaller : Invoke(c)
    \/ \E c \in OneCaller : Wake(c)
    \/ \E c \in OneCaller : Done(c)
    \/ Reset

SpecRetry == InitRetry /\ [][NextRetry]_vars

----------------------------------------------------------------------------
(* Properties of execute_with_retry *)

(* C1: for max_retries >= 0 the operation is invoked at most max_retries + 1
   times; a call all of whose invocations raised a failure of a retryable
   kind ends only by raising, after exactly max_retries + 1 invocations, and
   what it raises is the last failure. *)
C1_AttemptsBounded ==
    \A c \in Callers :
        LET r == retry[c]
        IN  (r.pc # "idle" /\ r.max_retries >= 0) =>
                /\ r.invocations <= r.max_retries + 1
                /\ (r.all_retryable /\ r.pc \in {"returned", "raised"}) =>
                       /\ r.pc = "raised"
                       /\ r.invocations = r.max_retries + 1
                       /\ ~r.last.ok
                       /\ r.exc = r.last.exc

C1_Witness ==
    \E c \in Callers :
        /\ retry[c].pc = "raised"
        /\ retry[c].all_retryable
        /\ retry[c].max_retries = 2
        /\ retry[c].invocations = 3

(* C2: once an invocation has raised a failure of a non-retryable kind the
   call has raised that failure: the operation was not invoked again and no
   sleep followed it (the sleeps are those after the earlier failures). *)
C2_NonRetryablePropagates ==
    \A c \in Callers :
        LET r == retry[c]
        IN  r.nonretry_seen =>
                /\ r.pc = "raised"
                /\ ~r.last.ok
                /\ classify_error(r.last.exc) \in NonRetryableKinds
                /\ r.exc = r.last.exc
                /\ r.sleeps = r.invocations - 1

C2_Witness ==
    \E c \in Callers :
        /\ retry[c].pc = "raised"
        /\ retry[c].nonretry_seen
        /\ retry[c].invocations = 2
        /\ retry[c].attempt < retry[c].max_retries

(* C3: when the latest invocation succeeded the call has returned that
   invocation's result (so nothing is invoked after a success) and the
   failure counter of the operation name reads 0. *)
C3_SuccessReturnsAndResets ==
    \A c \in Callers :
        LET r == retry[c]
        IN  (r.invocations > 0 /\ r.last.ok) =>
                /\ r.pc = "returned"
                /\ r.result = r.last.value
                /\ failure_count(r.step_name) = 0

C3_Witness ==
    \E c \in Callers :
        /\ retry[c].pc = "returned"
        /\ retry[c].invocations = 3
        /\ retry[c].result = "r2"
        /\ retry[c].step_name \in DOMAIN failure_counts

(* C4: the failure counter of every operation name is the number of failed
   attempts made under that name since the last success or explicit reset
   under it, whatever the calls and their max_retries were. *)
C4_CounterCountsFailures ==
    \A step_name \in OpNames : failure_count(step_name) = failed_since[step_name]

C4_Witness ==
    \E step_name \in OpNames :
        /\ failure_count(step_name) > MaxRetriesBound + 1
        /\ calls_made >= 2

----------------------------------------------------------------------------
(* Tasks sharing one RateLimiter *)

Waiters == {"w1", "w2"}

DelayChoices == {50, 2500}

RetryAfterChoices == {2000}

RateChoices == {0, 30}

AdvanceSteps == {500}

WaitIfNeeded(task) ==
    /\ wait_calls < MaxWaitCalls
    /\ \E url \in Urls : WaitStartCore(task, url)
    /\ wait_calls' = wait_calls + 1
    /\ UNCHANGED <<config_calls, retryVars, runVars, pagVars, probe>>

WakeGlobal(task) ==
    /\ WakeGlobalCore(task)
    /\ UNCHANGED <<wait_calls, config_calls, retryVars, runVars, pagVars, probe>>

WakeDomain(task) ==
    /\ WakeDomainCore(task)
    /\ UNCHANGED <<wait_calls, config_calls, retryVars, runVars, pagVars, probe>>

ConfigFrame ==
    /\ config_calls < MaxConfigCalls
    /\ config_calls' = config_calls + 1
    /\ UNCHANGED <<now, request_history, last_request_time, global_last_request,
                   rl, wait_calls, returns, retryVars, runVars, pagVars, probe>>

SetDomainDelay ==
    /\ \E domain \in Netlocs, delay \in DelayChoices : set_domain_delay(domain, delay)
    /\ ConfigFrame

UpdateFromRetryAfter ==
    /\ \E domain \in Netlocs, retry_after \in RetryAfterChoices :
           update_from_retry_after(domain, retry_after)
    /\ ConfigFrame

SetPoliteDelay ==
    /\ \E domain \in Netlocs, rpm \in RateChoices : set_polite_delay(domain, rpm)
    /\ ConfigFrame

(* time passes while no task runs *)
Advance ==
    /\ \E d \in AdvanceSteps : now + d <= Epoch + Horizon /\ now' = now + d
    /\ UNCHANGED <<request_history, domain_delays, last_request_time,
                   global_last_request, rl, wait_calls, config_calls, returns,
                   requested, retryVars, runVars, pagVars, probe>>

RetryIdle ==
    /\ failure_counts = EmptyDict
    /\ retry = [c \in Callers |-> IdleCall]
    /\ calls_made = 0
    /\ failed_since = [n \in OpNames |-> 0]

InitRate == RateIdle /\ RetryIdle /\ RunIdle /\ PagIdle

NextRate ==
    \/ \E task \in Waiters : WaitIfNeeded(task)
    \/ \E task \in Waiters : WakeGlobal(task)
    \/ \E task \in Waiters : WakeDomain(task)
    \/ SetDomainDelay
    \/ UpdateFromRetryAfter
    \/ SetPoliteDelay
    \/ Advance

SpecRate == InitRate /\ [][NextRate]_vars

(* Call j began after call i had returned *)
NonOverlapping(i, j) == i < j /\ returns[j].returned_before >= i

(* Both calls ran with the delay D > 0 that set_domain_delay(d, D) asked for
   under the host name d of their URLs *)
SameRequestedDelay(i, j) ==
    /\ returns[i].netloc = returns[j].netloc
    /\ returns[i].requested_before > 0
    /\ returns[i].requested = returns[i].requested_before
    /\ returns[j].requested_before = returns[i].requested_before
    /\ returns[j].requested = returns[i].requested_before

(* C8: any two wait_if_needed calls on one RateLimiter return at least the
   global floor apart, whatever their domains and whether or not they
   overlap. *)
C8_GlobalFloorBetweenReturns ==
    \A i, j \in DOMAIN returns :
        i < j => returns[j].at - returns[i].at >= global_min_delay

(* The global floor does hold between calls that do not overlap *)
GlobalFloorSequential ==
    \A i, j \in DOMAIN returns :
        NonOverlapping(i, j) => returns[j].at - returns[i].at >= global_min_delay

(* C9: after set_domain_delay(d, D), of two wait_if_needed calls for URLs of
   domain d that do not overlap, the second returns no earlier than D after
   the first returned. *)
C9_DomainFloorBetweenReturns ==
    \A i, j \in DOMAIN returns :
        (NonOverlapping(i, j) /\ SameRequestedDelay(i, j))
            => returns[j].at - returns[i].at >= returns[i].requested

(* The domain floor does hold when d is written in lower case, the form
   under which wait_if_needed looks the delay up *)
DomainFloorLowerCase ==
    \A i, j \in DOMAIN returns :
        (/\ NonOverlapping(i, j)
         /\ SameRequestedDelay(i, j)
         /\ Lower(returns[i].netloc) = returns[i].netloc)
            => returns[j].at - returns[i].at >= returns[i].requested

----------------------------------------------------------------------------
(* WebAutomationAgent.run                                                  *)

MaxAttempts == 2        \* max_attempts is drawn from 1 .. MaxAttempts
MaxSteps == 2           \* the plan has 0 .. MaxSteps steps

(* line 676: page.wait_for_timeout(2000) *)
PageSettle == 2000

(* lines 789 and 834: max_retries of the primary and of the recovery call *)
PrimaryRetries == 2

RecoveryRetries == 1

RunUrls == {Url("d.com")}

(* what robots.txt says: can_fetch("*", url), crawl_delay("*") in ms (0 when
   absent or unreadable) and whether the checked paths are allowed *)
Robots ==
    [can_fetch : BOOLEAN, crawl_delay : {0, 2500}, paths_allowed : BOOLEAN]

(* the ways an attempt ends before the plan is executed: the proactive check
   aborts (line 703), API-first mode is chosen (lines 747, 756), or neither *)
EarlyExits == {"none", "abort", "api_first"}

StepChoices ==
    [action : {"extract", "download"}, comment : {"items"}, critical : BOOLEAN]

RECURSIVE SeqsUpTo(_, _)
SeqsUpTo(S, n) ==
    IF n = 0 THEN {<<>>}
    ELSE LET shorter == SeqsUpTo(S, n - 1)
         IN  shorter \cup {Append(q, x) : q \in shorter, x \in S}

Plans == SeqsUpTo(StepChoices, MaxSteps)

RunFailures == {E_timeout, E_forbidden, E_memory}

(* random.uniform(0.8, 1.2) of retry_manager.py line 145, at its middle *)
RunJitter == {100}

RunOutcomes == {Ok("r1")} \cup {Raise(e) : e \in RunFailures}

(* lines 803-808: the download handling after a successful step may raise *)
PostOutcomes(step) ==
    IF step.action = "download"
    THEN {Ok(None)} \cup {Raise(e) : e \in RunFailures}
    ELSE {Ok(None)}

(* line 778 *)
step_name(idx, step) == "Step " \o ToString(idx) \o ": " \o step.comment

(* line 833 *)
recovery_name(name) == name \o " (recovery)"

RunNames ==
    LET names == {step_name(idx, step) : idx \in 1 .. MaxSteps, step \in StepChoices}
    IN  names \cup {recovery_name(n) : n \in names}

(* RecoveryManager.should_attempt_recovery *)
no_recovery_types ==
    {"memory_error", "disk_space_error", "ip_blocked", "geo_blocked",
     "forbidden", "not_found"}

limited_recovery_types == {"bot_detection", "captcha_detected", "dns_error", "ssl_error"}

should_attempt_recovery_never_for_eight(error_type, attempt_count) ==
    IF error_type \in no_recovery_types \cup {"bot_detection", "captcha_detected"} THEN FALSE
    ELSE IF error_type \in limited_recovery_types /\ attempt_count > 1 THEN FALSE
    ELSE IF error_type = "server_error" /\ attempt_count > 3 THEN FALSE
    ELSE IF error_type = "rate_limit" /\ attempt_count > 5 THEN FALSE
    ELSE TRUE

should_attempt_recovery(error_type, attempt_count) ==
    IF error_type \in no_recovery_types THEN FALSE
    ELSE IF error_type \in limited_recovery_types /\ attempt_count > 1 THEN FALSE
    ELSE IF error_type = "server_error" /\ attempt_count > 3 THEN FALSE
    ELSE IF error_type = "rate_limit" /\ attempt_count > 5 THEN FALSE
    ELSE TRUE

(* lines 853 and 862: step.get("critical", False) *)
IsCriticalNever(step) == FALSE

IsCritical(step) == step.critical

(* the for loop of line 777 goes on *)
NextStep(r) ==
    IF r.idx < Len(r.steps)
    THEN [r EXCEPT !.pc = "step_begin", !.idx = @ + 1]
    ELSE [r EXCEPT !.pc = "approval"]

(* lines 853-857 and 862-867: the step is given up *)
GiveUp(e, entry) ==
    IF IsCritical(run.step)
    THEN /\ run' = [run EXCEPT !.pc = "raised", !.exc = e,
                               !.raised_as = "critical_step_failed"]
         /\ log' = [entry EXCEPT !.outcome = "aborted"]
    ELSE /\ run' = NextStep(run)
         /\ log' = [entry EXCEPT !.outcome = "skipped"]

(* lines 810-867: the handler of the primary execution's failure e *)
Handle(e) ==
    LET error_type == classify_error(e)
        severity == get_error_severity(error_type)
        entry == [log EXCEPT !.primary = "failed", !.primary_exc = e]
    IN  IF severity = "critical"
        THEN /\ run' = [run EXCEPT !.pc = "raised", !.exc = e,
                                   !.raised_as = "propagated"]
             /\ log' = [entry EXCEPT !.outcome = "aborted"]
             /\ retry' = [retry EXCEPT !["run"] = IdleCall]
        ELSE IF ~run.recovery_attempted /\ should_attempt_recovery(error_type, 1)
        THEN /\ run' = [run EXCEPT !.pc = "recovery"]
             /\ log' = [entry EXCEPT !.recovery = "running", !.calls = @ + 1,
                                      !.fallbacks = @ + 1]
             /\ retry' = [retry EXCEPT !["run"] =
                    StartCall(recovery_name(step_name(run.idx, run.step)),
                              RecoveryRetries, NoHint, NoHint)]
        ELSE /\ GiveUp(e, entry)
             /\ retry' = [retry EXCEPT !["run"] = IdleCall]

(* lines 631-640: run(max_attempts) begins its first attempt *)
RunStart ==
    /\ run.pc = "start"
    /\ \E max_attempts \in 1 .. MaxAttempts, url \in RunUrls :
           run' = [IdleRun EXCEPT !.pc = "gate", !.max_attempts = max_attempts,
                                  !.url = url]
    /\ UNCHANGED <<pagVars, probe, rateVars, retryVars, ops, log>>

(* line 672: await self.rate_limiter.wait_if_needed(self.state.url) *)
RunGate ==
    /\ run.pc = "gate"
    /\ WaitStartCore("run", run.url)
    /\ run' = [run EXCEPT !.pc = "gating"]
    /\ UNCHANGED <<pagVars, probe, wait_calls, config_calls, retryVars, ops, log>>

(* the sleep inside that wait_if_needed call is over *)
RunGateWake ==
    /\ run.pc = "gating"
    /\ rl["run"].pc # "idle"
    /\ IF rl["run"].pc = "global_sleep"
       THEN WakeGlobalCore("run")
       ELSE WakeDomainCore("run")
    /\ UNCHANGED <<pagVars, probe, wait_calls, config_calls, retryVars, runVars>>

(* lines 674-761: page.goto, check_robots, the early exits and the plan *)
RunNavigate ==
    /\ run.pc = "gating"
    /\ rl["run"].pc = "idle"
    /\ now' = now + PageSettle
    /\ ops' = NetworkOp("goto", 0, FALSE)
    /\ \E robots \in Robots, early \in EarlyExits, steps \in Plans :
           LET crawl == robots.can_fetch /\ robots.crawl_delay > 0
               r == IF crawl THEN [run EXCEPT !.crawl_delay = robots.crawl_delay]
                    ELSE run
           IN  /\ IF crawl
                  THEN set_domain_delay(extract_domain_raw(run.url), robots.crawl_delay)
                  ELSE UNCHANGED <<domain_delays, requested>>
               /\ run' =
                      IF ~robots.can_fetch \/ ~robots.paths_allowed \/ early = "abort"
                      THEN [r EXCEPT !.pc = "returned"]
                      ELSE IF early = "api_first"
                      THEN [r EXCEPT !.pc = "done"]
                      ELSE IF Len(steps) = 0
                      THEN [r EXCEPT !.pc = "approval", !.steps = steps, !.idx = 0]
                      ELSE [r EXCEPT !.pc = "step_begin", !.steps = steps, !.idx = 1]
    /\ log' = NoLog
    /\ UNCHANGED <<pagVars, probe, request_history, last_request_time, global_last_request, rl,
                   wait_calls, config_calls, returns, retryVars>>

(* lines 777-791: the next step of the plan and its execute_with_retry call *)
RunBeginStep ==
    /\ run.pc = "step_begin"
    /\ LET step == run.steps[run.idx]
       IN  /\ run' = [run EXCEPT !.pc = "primary", !.step = step,
                                 !.recovery_attempted = FALSE]
           /\ retry' = [retry EXCEPT !["run"] =
                  StartCall(step_name(run.idx, step), PrimaryRetries, NoHint, NoHint)]
    /\ log' = NewLogEntry(run.idx, log.outcome)
    /\ UNCHANGED <<pagVars, probe, rateVars, failure_counts, calls_made, failed_since, ops>>

(* lines 504-511 inside execute_with_retry: asyncio.sleep(self.crawl_delay) when
   it is positive, then the step runs on the page and ends with outcome o.
   The time the steps and the backoff sleeps take is not counted: it only
   shortens the waits of the next attempt's wait_if_needed call. *)
RunInvoke ==
    /\ run.pc \in {"primary", "recovery"}
    /\ \E o \in RunOutcomes, jitter \in RunJitter : InvokeCore("run", o, jitter)
    /\ ops' = NetworkOp("step", run.idx, run.pc = "recovery")
    /\ UNCHANGED <<pagVars, probe, rateVars, run, log>>

(* retry_manager.py line 77: the backoff sleep is over *)
RunWake ==
    /\ run.pc \in {"primary", "recovery"}
    /\ WakeCore("run")
    /\ UNCHANGED <<pagVars, probe, rateVars, runVars>>

(* lines 793-808: the primary call returned *)
RunPrimaryReturned ==
    /\ run.pc = "primary"
    /\ retry["run"].pc = "returned"
    /\ \E post \in PostOutcomes(run.step) :
           IF post.ok
           THEN /\ run' = NextStep(run)
                /\ log' = [log EXCEPT !.primary = "ok", !.outcome = "ok"]
                /\ retry' = [retry EXCEPT !["run"] = IdleCall]
           ELSE Handle(post.exc)
    /\ UNCHANGED <<pagVars, probe, rateVars, failure_counts, calls_made, failed_since, ops>>

(* line 810: the primary call raised *)
RunPrimaryRaised ==
    /\ run.pc = "primary"
    /\ retry["run"].pc = "raised"
    /\ Handle(retry["run"].exc)
    /\ UNCHANGED <<pagVars, probe, rateVars, failure_counts, calls_made, failed_since, ops>>

(* lines 838-847: the recovery call returned *)
RunRecoveryReturned ==
    /\ run.pc = "recovery"
    /\ retry["run"].pc = "returned"
    /\ run' = NextStep([run EXCEPT !.recovery_attempted = TRUE])
    /\ log' = [log EXCEPT !.recovery = "ok", !.outcome = "recovered"]
    /\ retry' = [retry EXCEPT !["run"] = IdleCall]
    /\ UNCHANGED <<pagVars, probe, rateVars, failure_counts, calls_made, failed_since, ops>>

(* a failed recovery handled like a failed primary execution *)
RunRecoveryRaisedRecovers ==
    /\ run.pc = "recovery"
    /\ retry["run"].pc = "raised"
    /\ run' = run
    /\ log' = [log EXCEPT !.recovery = "running", !.calls = @ + 1, !.fallbacks = @ + 1,
                          !.recovery_exc = retry["run"].exc]
    /\ retry' = [retry EXCEPT !["run"] =
           StartCall(recovery_name(step_name(run.idx, run.step)),
                     RecoveryRetries, NoHint, NoHint)]
    /\ UNCHANGED <<pagVars, probe, rateVars, failure_counts, calls_made, failed_since, ops>>

(* lines 849-857: the recovery call raised recovery_error *)
RunRecoveryRaised ==
    /\ run.pc = "recovery"
    /\ retry["run"].pc = "raised"
    /\ GiveUp(retry["run"].exc,
              [log EXCEPT !.recovery = "failed", !.recovery_exc = retry["run"].exc])
    /\ retry' = [retry EXCEPT !["run"] = IdleCall]
    /\ UNCHANGED <<pagVars, probe, rateVars, failure_counts, calls_made, failed_since, ops>>

(* lines 954-967: approval ends the run, a refusal starts the next attempt
   while there is one left *)
RunApproval ==
    /\ run.pc = "approval"
    /\ \E approved \in BOOLEAN :
           run' = IF ~approved /\ run.attempt < run.max_attempts - 1
                  THEN [run EXCEPT !.pc = "gate", !.attempt = @ + 1]
                  ELSE [run EXCEPT !.pc = "done"]
    /\ UNCHANGED <<pagVars, probe, rateVars, retryVars, ops, log>>

InitRun ==
    /\ RateIdle
    /\ RunIdle
    /\ PagIdle
    /\ failure_counts = EmptyDict
    /\ retry = [c \in {"run"} |-> IdleCall]
    /\ calls_made = 0
    /\ failed_since = [n \in RunNames |-> 0]

NextRun ==
    \/ RunStart
    \/ RunGate
    \/ RunGateWake
    \/ RunNavigate
    \/ RunBeginStep
    \/ RunInvoke
    \/ RunWake
    \/ RunPrimaryReturned
    \/ RunPrimaryRaised
    \/ RunRecoveryReturned
    \/ RunRecoveryRaised
    \/ RunApproval

SpecRun == InitRun /\ [][NextRun]_vars

----------------------------------------------------------------------------
(* Properties of the run loop *)

PrimaryFailed == log.primary = "failed"

RecoveryFailed == log.recovery = "failed"

CriticalSeverity(e) == get_error_severity(classify_error(e)) = "critical"

(* the run has left the step in hand behind and goes on with the plan: the
   next step is about to begin, or the plan is over *)
GoesOnAfter(idx) ==
    IF idx < Len(run.steps)
    THEN run.pc = "step_begin" /\ run.idx = idx + 1
    ELSE run.pc \in {"approval", "gate", "gating", "done"}

(* C5: when the primary execution of a step and its recovery attempt have both
   failed, a step flagged critical has ended the run by a raised failure that
   tells "critical step failed" (no later step begins: the run stays at that
   step), and a step not flagged critical is skipped and the run goes on with
   the next step of the plan; a step that begins after a skipped one is the
   next one of the plan. *)
C5_CriticalAbortsElseSkips ==
    /\ (log.idx > 0 /\ PrimaryFailed /\ RecoveryFailed) =>
           IF run.steps[log.idx].critical
           THEN /\ run.pc = "raised"
                /\ run.raised_as = "critical_step_failed"
                /\ run.exc = log.recovery_exc
                /\ run.idx = log.idx
                /\ log.outcome = "aborted"
           ELSE /\ log.outcome = "skipped"
                /\ GoesOnAfter(log.idx)
    /\ (log.idx > 0 /\ log.before = "skipped") =>
           /\ log.idx > 1
           /\ log.idx <= Len(run.steps)
           /\ run.idx \in {log.idx, log.idx + 1}

(* a non-critical step 1 was skipped after both failures and step 2, flagged
   critical, has aborted the run after both failures *)
C5_Witness ==
    /\ log.idx = 2
    /\ log.before = "skipped"
    /\ ~run.steps[1].critical
    /\ run.steps[2].critical
    /\ PrimaryFailed
    /\ RecoveryFailed
    /\ run.pc = "raised"
    /\ ops.op = "step" /\ ops.idx = 2 /\ ops.recovery

(* C6: when the primary execution or the recovery attempt of a step has ended
   with a failure of a kind of critical severity, that failure has been
   raised out of the run, whether or not the step is flagged critical. *)
C6_CriticalSeverityTerminates ==
    /\ (log.idx > 0 /\ PrimaryFailed /\ CriticalSeverity(log.primary_exc)) =>
           /\ run.pc = "raised"
           /\ run.exc = log.primary_exc
    /\ (log.idx > 0 /\ RecoveryFailed /\ CriticalSeverity(log.recovery_exc)) =>
           /\ run.pc = "raised"
           /\ run.exc = log.recovery_exc

(* What the code does keep: a failure of critical severity that ends the
   primary execution is raised out of the run *)
CriticalSeverityPrimaryTerminates ==
    (log.idx > 0 /\ PrimaryFailed /\ CriticalSeverity(log.primary_exc)) =>
        /\ run.pc = "raised"
        /\ run.exc = log.primary_exc
        /\ run.raised_as = "propagated"

(* C7: every network-bound operation of the run (page.goto and every attempt
   of every step, retried and recovery attempts included) ran after a
   wait_if_needed call of its own: one that returned after the operation
   before it. *)
C7_EveryOperationGated ==
    ops.op # None => ops.waits > ops.waits_before

(* What the code does keep: the navigation of every attempt is gated *)
NavigationGated ==
    ops.op = "goto" => ops.waits > ops.waits_before

----------------------------------------------------------------------------
(* Paginator.auto_paginate                                                 *)

MaxPages == 3           \* max_pages is drawn from 0 .. MaxPages
MaxItems == 2           \* an extract_fn call returns 0 .. MaxItems items

(* An item is a Python value: `value` tells which value it is (two items are
   equal, ==, when their values are) and `text` is what str() makes of it.
   The int 1 and the string "1" differ and have one str(); a dict compares
   equal whatever the order of its keys, which str() keeps. *)
Item(value, text) == [value |-> value, text |-> text]

Items ==
    {Item("int 1", "1"),
     Item("str 1", "1"),
     Item("dict a=x b=y", "{'a': 'x', 'b': 'y'}"),
     Item("dict a=x b=y", "{'b': 'y', 'a': 'x'}")}

(* str(item) *)
str(item) == item.text

(* hash() of the strings of the model, which it keeps apart *)
hash(text) ==
    CASE text = "1" -> 1
      [] text = "{'a': 'x', 'b': 'y'}" -> 2
      [] text = "{'b': 'y', 'a': 'x'}" -> 3
      [] OTHER -> 0

(* line 37 *)
item_hash(item) == hash(str(item))

PageLists == SeqsUpTo(Items, MaxItems)

(* lines 35-40: the loop over new_data, from its k-th item on *)
RECURSIVE Deduplicate(_, _, _, _)
Deduplicate(new_data, k, seen, unique_new) ==
    IF k > Len(new_data) THEN [seen_hashes |-> seen, unique_new |-> unique_new]
    ELSE IF item_hash(new_data[k]) \notin seen
    THEN Deduplicate(new_data, k + 1, seen \cup {item_hash(new_data[k])},
                     Append(unique_new, new_data[k]))
    ELSE Deduplicate(new_data, k + 1, seen, unique_new)

(* the same loop without the test of line 38 *)
KeepAll(new_data, seen) ==
    [seen_hashes |-> seen \cup {item_hash(new_data[k]) : k \in DOMAIN new_data},
     unique_new |-> new_data]

unique_items(new_data, seen) == Deduplicate(new_data, 1, seen, <<>>)

(* the fingerprints of the items of a list *)
Fingerprints(items) == {item_hash(items[k]) : k \in DOMAIN items}

(* no item of the list has a fingerprint outside seen *)
NothingNew(new_data, seen) == Fingerprints(new_data) \subseteq seen

(* the list is not empty and its items have fingerprints that are outside
   seen and differ from one another *)
AllFresh(new_data, seen) ==
    /\ new_data # <<>>
    /\ Fingerprints(new_data) \cap seen = {}
    /\ Cardinality(Fingerprints(new_data)) = Len(new_data)

(* line 42: if not unique_new *)
NoNewDataNever(unique_new) == FALSE

NoNewData(unique_new) == unique_new = <<>>

(* line 24: while page_num <= max_pages *)
LoopTestOnceMore(n, max_pages) == IF n <= max_pages + 1 THEN "extract" ELSE "returned"

LoopTest(n, max_pages) == IF n <= max_pages THEN "extract" ELSE "returned"

(* lines 20-24 *)
PagStart ==
    /\ pag.pc = "idle"
    /\ \E max_pages \in 0 .. MaxPages :
           pag' = [NoPag EXCEPT !.pc = LoopTest(1, max_pages),
                                !.max_pages = max_pages]
    /\ all_data' = <<>>
    /\ seen_hashes' = {}
    /\ page_num' = 1
    /\ extracted' = {}
    /\ UNCHANGED <<rateVars, retryVars, runVars, probe>>

(* lines 25-46: one page is extracted and its new items are kept *)
PagExtract ==
    /\ pag.pc = "extract"
    /\ \E new_data \in PageLists :
           LET d == unique_items(new_data, seen_hashes)
           IN  /\ seen_hashes' = d.seen_hashes
               /\ all_data' = all_data \o d.unique_new
               /\ pag' = [pag EXCEPT
                      !.pc = IF NoNewData(d.unique_new) THEN "returned" ELSE "next",
                      !.dropped = @ + Len(new_data) - Len(d.unique_new),
                      !.calls = @ + 1,
                      !.given = @ + Len(new_data),
                      !.first = IF pag.calls = 0 THEN new_data ELSE @,
                      !.same = @ /\ (pag.calls = 0 \/ new_data = pag.first),
                      !.fresh = @ /\ AllFresh(new_data, seen_hashes),
                      !.stopped_at =
                          IF @ = 0 /\ NothingNew(new_data, seen_hashes)
                          THEN pag.calls + 1 ELSE @,
                      !.stopped_len =
                          IF pag.stopped_at = 0 /\ NothingNew(new_data, seen_hashes)
                          THEN Len(all_data) ELSE @]
               /\ extracted' = extracted \cup {new_data[k] : k \in DOMAIN new_data}
    /\ UNCHANGED <<page_num, rateVars, retryVars, runVars, probe>>

(* line 32: extract_fn raises, and auto_paginate with it *)
PagExtractRaises ==
    /\ pag.pc = "extract"
    /\ pag' = [pag EXCEPT !.pc = "raised", !.calls = @ + 1]
    /\ UNCHANGED <<all_data, seen_hashes, page_num, extracted,
                   rateVars, retryVars, runVars, probe>>

(* lines 59-71: a next button is found and clicked *)
PagClickNext ==
    /\ pag.pc = "next"
    /\ page_num' = page_num + 1
    /\ pag' = [pag EXCEPT !.pc = LoopTest(page_num', pag.max_pages), !.moved = "click",
                        !.moves = @ + 1]
    /\ UNCHANGED <<all_data, seen_hashes, extracted, rateVars, retryVars, runVars, probe>>

(* lines 73-77: no next button, the page is scrolled to its bottom *)
PagScroll ==
    /\ pag.pc = "next"
    /\ page_num' = page_num + 1
    /\ pag' = [pag EXCEPT !.pc = LoopTest(page_num', pag.max_pages), !.moved = "scroll",
                        !.moves = @ + 1]
    /\ UNCHANGED <<all_data, seen_hashes, extracted, rateVars, retryVars, runVars, probe>>

InitPag == RateIdle /\ RetryIdle /\ RunIdle /\ PagIdle

NextPag ==
    \/ PagStart
    \/ PagExtract
    \/ PagExtractRaises
    \/ PagClickNext
    \/ PagScroll

SpecPag == InitPag /\ [][NextPag]_vars

(* the positions of the list at which the item, or one equal to it, stands *)
PlacesOf(item) == {i \in DOMAIN all_data : all_data[i].value = item.value}

(* C10, as the claim states it: the list auto_paginate returns never holds
   two items of one fingerprint, and every distinct item that an extract_fn
   call of the run returned stands in it exactly once. *)
C10_EachItemOnce ==
    pag.pc = "returned" =>
        /\ \A i, j \in DOMAIN all_data :
               item_hash(all_data[i]) = item_hash(all_data[j]) => i = j
        /\ \A item \in extracted : Cardinality(PlacesOf(item)) = 1

(* C10, amended: all_data never holds two items of one fingerprint, and the
   fingerprint of every item that an extract_fn call of the run returned is
   the fingerprint of exactly one item of it; seen_hashes is the set of those
   fingerprints. *)
C10_EachFingerprintOnce ==
    /\ \A i, j \in DOMAIN all_data :
           item_hash(all_data[i]) = item_hash(all_data[j]) => i = j
    /\ \A item \in extracted :
           Cardinality({i \in DOMAIN all_data :
                            item_hash(all_data[i]) = item_hash(item)}) = 1
    /\ seen_hashes = {item_hash(item) : item \in extracted}

(* three pages were extracted, items were dropped as duplicates and the list
   returned holds two items for three items met *)
C10_Witness ==
    /\ pag.pc = "returned"
    /\ page_num >= 3
    /\ pag.dropped >= 2
    /\ Len(all_data) = 2
    /\ Cardinality(extracted) = 3

(* the first n items of a list, each kept unless an item before it has its
   fingerprint *)
RECURSIVE FirstOfEachFingerprint(_, _)
FirstOfEachFingerprint(items, n) ==
    IF n = 0 THEN <<>>
    ELSE LET before == FirstOfEachFingerprint(items, n - 1)
         IN  IF \E j \in 1 .. n - 1 : item_hash(items[j]) = item_hash(items[n])
             THEN before
             ELSE Append(before, items[n])

(* the call that brought no item of a new fingerprint was the last one, and
   all_data is what it was before that call *)
StoppedAtBarrenPage ==
    pag.stopped_at > 0 =>
        /\ pag.pc = "returned"
        /\ pag.calls = pag.stopped_at
        /\ Len(all_data) = pag.stopped_len

(* auto_paginate has returned and every extract_fn call, of which there was
   one at least, returned the same list *)
ReturnedOnSameItems == pag.pc = "returned" /\ pag.calls >= 1 /\ pag.same

(* C11, as the claim states it: auto_paginate stops at the first iteration
   whose extraction brings no new unique item (extract_fn is not called again
   and the items kept so far are returned), and with an extract_fn that
   always returns the same items there are exactly two extract_fn calls and
   the result is those items without duplicates. *)
C11_TwoCallsOnSameItems ==
    /\ StoppedAtBarrenPage
    /\ ReturnedOnSameItems =>
           /\ pag.calls = 2
           /\ all_data = FirstOfEachFingerprint(pag.first, Len(pag.first))

(* C11, amended: auto_paginate stops at the first iteration whose extraction
   brings no new unique item, and with an extract_fn that always returns the
   same items the result is those items without duplicates after exactly two
   extract_fn calls when the items are not empty and max_pages >= 2, and
   after exactly one call when the list is empty or max_pages = 1. *)
C11_StopsAtBarrenPage ==
    /\ StoppedAtBarrenPage
    /\ ReturnedOnSameItems =>
           /\ pag.calls = IF pag.first = <<>> \/ pag.max_pages = 1 THEN 1 ELSE 2
           /\ all_data = FirstOfEachFingerprint(pag.first, Len(pag.first))

(* with max_pages = 3 both calls returned the same two items: the second call
   brought nothing new, its two items were dropped and the loop ended *)
C11_Witness ==
    /\ ReturnedOnSameItems
    /\ pag.max_pages = 3
    /\ pag.calls = 2
    /\ pag.stopped_at = 2
    /\ Len(pag.first) = 2
    /\ Len(all_data) = 2
    /\ pag.dropped = 2

(* C12: auto_paginate calls extract_fn at most max_pages times and, once the
   pages are used up, has returned (it does not raise for that); when every
   extract_fn call returned fresh unique items it has returned after exactly
   max_pages calls, and all_data holds all the items of those calls. *)
C12_AtMostMaxPagesCalls ==
    /\ pag.calls <= pag.max_pages
    /\ (pag.pc # "idle" /\ page_num > pag.max_pages) => pag.pc = "returned"
    /\ (pag.pc = "returned" /\ pag.fresh) =>
           /\ pag.calls = pag.max_pages
           /\ Len(all_data) = pag.given
           /\ \A item \in extracted : \E i \in DOMAIN all_data : all_data[i] = item

(* three calls with max_pages = 3, each of them brought a fresh item *)
C12_Witness ==
    /\ pag.pc = "returned"
    /\ pag.fresh
    /\ pag.max_pages = 3
    /\ pag.calls = 3
    /\ page_num = 4
    /\ Len(all_data) = 3

(***************************************************************************)
(* ErrorClassifier called on its own: classify_error, get_error_severity   *)
(* and should_retry are static methods without state, so each call is one  *)
(* step that leaves its input and its result in probe.  A result depends   *)
(* on the arguments alone, so a behaviour makes one call (and, for         *)
(* classify_error, a second one on the same failure).                      *)
(***************************************************************************)

MaxWords == 2

(* Every keyword classify_error looks for, and one it does not *)
Keywords ==
    {"dns", "name resolution", "nodename nor servname", "ssl", "tls", "certificate",
     "connection refused", "connection reset", "network", "unreachable",
     "429", "too many requests", "rate limit", "403", "forbidden", "404", "not found",
     "500", "502", "503", "504", "timeout", "selector", "element", "locator", "stale",
     "frame", "detached", "dialog", "alert", "popup", "captcha", "recaptcha", "hcaptcha",
     "cloudflare", "challenge", "verification", "blocked", "banned", "json", "parse",
     "decode", "encoding", "charset", "unicode", "javascript", "script", "eval",
     "memory", "out of memory", "cpu", "disk", "space", "ajax", "xhr", "fetch",
     "websocket", "race", "timing", "geo", "region", "location", "cookie",
     "localstorage", "oops"}

RECURSIVE WordSets(_)
WordSets(n) ==
    IF n = 0 THEN {{}}
    ELSE LET s == WordSets(n - 1) IN s \cup {w \cup {k} : w \in s, k \in Keywords}

ExcTypes == {"Exception", "TimeoutError"}

Failures == {Exc(t, w) : t \in ExcTypes, w \in WordSets(MaxWords)}

ErrorKinds == DOMAIN severity_map

(* The tags a caller may pass: every kind of the tables, and one of none *)
Tags == ErrorKinds \cup {"no_such_tag"}

ClassifierFrame == UNCHANGED <<rateVars, retryVars, runVars, pagVars>>

ProbeClassify ==
    /\ probe = NoProbe
    /\ \E e \in Failures :
          probe' = [fn |-> "classify_error", error |-> e, result |-> classify_error(e)]
    /\ ClassifierFrame

(* The caller classifies the failure it holds a second time *)
ProbeClassifyAgain ==
    /\ probe.fn = "classify_error"
    /\ probe' = [fn |-> "classify_error_again", error |-> probe.error,
                 result |-> probe.result, again |-> classify_error(probe.error)]
    /\ ClassifierFrame

ProbeSeverity ==
    /\ probe = NoProbe
    /\ \E t \in Tags :
          probe' = [fn |-> "get_error_severity", error_type |-> t,
                    result |-> get_error_severity(t)]
    /\ ClassifierFrame

ProbeShouldRetry ==
    /\ probe = NoProbe
    /\ \E t \in Tags :
          probe' = [fn |-> "should_retry", error_type |-> t, result |-> should_retry(t)]
    /\ ClassifierFrame

(* The kinds classify_error gives to the failures of the bounded set *)
ReachedKinds == {classify_error(e) : e \in Failures}

(* A caller looks for a failure of a given kind *)
ProbeReached ==
    /\ probe = NoProbe
    /\ \E kind \in ErrorKinds :
          probe' = [fn |-> "reached", kind |-> kind, reached |-> kind \in ReachedKinds]
    /\ ClassifierFrame

InitClassifier == RateIdle /\ RetryIdle /\ RunIdle /\ PagIdle

NextClassifier ==
    \/ ProbeClassify
    \/ ProbeClassifyAgain
    \/ ProbeSeverity
    \/ ProbeShouldRetry
    \/ ProbeReached

SpecClassifier == InitClassifier /\ [][NextClassifier]_vars

(***************************************************************************)
(* Properties of the classifier                                            *)
(***************************************************************************)

(* C14: should_retry is false for exactly the eight kinds bot_detection,
   ip_blocked, geo_blocked, captcha_detected, forbidden, not_found,
   memory_error and disk_space_error, and true for every other tag, unknown
   and a tag of no table included. *)
C14_FalseForExactlyEightKinds ==
    probe.fn = "should_retry" =>
        /\ probe.result \in BOOLEAN
        /\ (probe.result = FALSE) <=> (probe.error_type \in NonRetryableKinds)
        /\ probe.error_type \in {"unknown", "no_such_tag", "dns_error", "server_error"}
               => probe.result = TRUE

C14_Witness ==
    /\ probe.fn = "should_retry"
    /\ probe.error_type = "no_such_tag"
    /\ probe.result = TRUE

ClassifyCalled == probe.fn \in {"classify_error", "classify_error_again"}

(* The cascade of classify_error as a list of rules in textual order: the
   kind of each rule and whether its keywords match the failure *)
rules(e) ==
    << <<"dns_error", AnyIn({"dns", "name resolution", "nodename nor servname"}, e)>>,
       <<"ssl_error", AnyIn({"ssl", "tls", "certificate"}, e)>>,
       <<"connection_error", AnyIn({"connection refused", "connection reset"}, e)>>,
       <<"network_unreachable", In("network", e) /\ In("unreachable", e)>>,
       <<"rate_limit", AnyIn({"429", "too many requests", "rate limit"}, e)>>,
       <<"forbidden", AnyIn({"403", "forbidden"}, e)>>,
       <<"not_found", AnyIn({"404", "not found"}, e)>>,
       <<"server_error", AnyIn({"500", "502", "503", "504"}, e)>>,
       <<"timeout", e.type = "TimeoutError" \/ In("timeout", e)>>,
       <<"selector_not_found", AnyIn({"selector", "element", "locator"}, e)>>,
       <<"stale_element", In("stale", e) /\ In("element", e)>>,
       <<"frame_error", In("frame", e) /\ AnyIn({"not found", "detached"}, e)>>,
       <<"dialog_error", AnyIn({"dialog", "alert", "popup"}, e)>>,
       <<"captcha_detected", AnyIn({"captcha", "recaptcha", "hcaptcha"}, e)>>,
       <<"bot_detection", AnyIn({"cloudflare", "challenge", "verification"}, e)>>,
       <<"ip_blocked", AnyIn({"blocked", "banned"}, e)>>,
       <<"json_parse_error", In("json", e) /\ AnyIn({"parse", "decode"}, e)>>,
       <<"encoding_error", AnyIn({"encoding", "charset", "unicode"}, e)>>,
       <<"javascript_error", AnyIn({"javascript", "script", "eval"}, e)>>,
       <<"memory_error", AnyIn({"memory", "out of memory"}, e)>>,
       <<"cpu_timeout", In("cpu", e) \/ (In("timeout", e) /\ In("script", e))>>,
       <<"disk_space_error", AnyIn({"disk", "space"}, e)>>,
       <<"ajax_error", AnyIn({"ajax", "xhr", "fetch"}, e)>>,
       <<"websocket_error", In("websocket", e)>>,
       <<"race_condition", AnyIn({"race", "timing"}, e)>>,
       <<"geo_blocked", AnyIn({"geo", "region", "location", "blocked"}, e)>>,
       <<"storage_error", AnyIn({"cookie", "localstorage"}, e)>> >>

Matching(e) == {i \in 1..Len(rules(e)) : rules(e)[i][2]}

FirstMatch(e) ==
    IF Matching(e) = {} THEN "unknown"
    ELSE rules(e)[CHOOSE i \in Matching(e) : \A j \in Matching(e) : i <= j][1]

(* The rules before the timeout rule: network/connection and HTTP status *)
EarlierThanTimeout == 1..8

(* C15: classify_error is total and deterministic: every failure gets one
   kind, a key of the severity table; a second call on the same failure
   gives the same kind; a failure no rule matches is unknown. *)
C15_TotalAndDeterministic ==
    ClassifyCalled =>
        /\ probe.result \in ErrorKinds
        /\ probe.fn = "classify_error_again" => probe.again = probe.result
        /\ Matching(probe.error) = {} => probe.result = "unknown"

C15_Witness ==
    /\ probe.fn = "classify_error_again"
    /\ probe.error = Exc("Exception", {"oops"})
    /\ probe.result = "unknown"
    /\ probe.again = "unknown"

(* C16: classify_error returns the kind of the first rule, in textual
   order, that matches; a failure that says "timeout" and matches none of
   the network and HTTP-status rules is timeout, never cpu_timeout, whether
   or not it also says "script" or "cpu". *)
C16_FirstMatchingRuleWins ==
    ClassifyCalled =>
        /\ probe.result = FirstMatch(probe.error)
        /\ In("timeout", probe.error) /\ Matching(probe.error) \cap EarlierThanTimeout = {}
               => probe.result = "timeout" /\ probe.result # "cpu_timeout"

C16_Witness ==
    /\ probe.fn = "classify_error"
    /\ probe.error = Exc("Exception", {"timeout", "script"})
    /\ probe.result = "timeout"

(***************************************************************************)
(* RecoveryManager called on its own.  Python dictionaries are objects:    *)
(* the caller and get_fallback_strategy may hold the same one, and an      *)
(* assignment step[k] = v changes it for both.  The heap is a sequence of  *)
(* dictionaries, an object is its index in the heap, and a nested          *)
(* dictionary is held as a reference to its index.                         *)
(***************************************************************************)

MaxSelLen == 2
MaxAttemptCount == 6

Key(k, present, v) == IF present THEN k :> v ELSE EmptyDict

Ref(i) == [ref |-> i]

(* keys of a step whose value is a nested dictionary *)
NestedKeys == {"fields"}

(* step[k] = v for every k |-> v of d, on the object id *)
Put(h, id, d) == [h EXCEPT ![id] = d @@ h[id]]

(* Locators are strings, kept as sequences of their characters; the two
   quoted parts of the attribute locators are one token each, they hold
   neither "#" nor "." *)
SelectorChars == {"#", ".", "a"}

RECURSIVE CharSeqs(_)
CharSeqs(n) ==
    IF n = 0 THEN {<<>>}
    ELSE LET s == CharSeqs(n - 1) IN s \cup {Append(w, c) : w \in s, c \in SelectorChars}

RECURSIVE replace(_, _, _)
replace(s, old, new) ==
    IF s = <<>> THEN <<>>
    ELSE (IF Head(s) = old THEN new ELSE <<Head(s)>>) \o replace(Tail(s), old, new)

data_testid(element) == <<"[data-testid*='">> \o element \o <<"']">>

aria_label(element) == <<"[aria-label*='">> \o element \o <<"']">>

(* list(set(...)): the elements of the set, once each, in an order that the
   hash seed of the interpreter decides *)
list_of_set(S) ==
    {f \in [1..Cardinality(S) -> S] : \A i, j \in 1..Cardinality(S) : f[i] = f[j] => i = j}

(* copy.deepcopy(step): a new dictionary, and a new one for each nested one *)
deepcopy_alias(h, id) == [heap |-> h, id |-> id]

deepcopy(h, id) ==
    LET nested == {k \in DOMAIN h[id] : k \in NestedKeys}
        n == Len(h)
    IN  IF nested = {}
        THEN [heap |-> Append(h, h[id]), id |-> n + 1]
        ELSE [heap |-> h \o << ("fields" :> Ref(n + 2)) @@ h[id], h[h[id]["fields"].ref] >>,
              id |-> n + 1]

broader_selectors(step) ==
    LET original_selector == DictGet(step, "selector", <<>>)
        element == DictGet(step, "element", <<>>)
    IN  << original_selector,
           replace(original_selector, "#", <<".">>),
           replace(original_selector, ".", <<>>),
           data_testid(element),
           aria_label(element) >>

NonEmptySelectors(step) ==
    {broader_selectors(step)[i] : i \in 1..5} \ {<<>>}

(* Each strategy changes the step it is given in place and returns it; the
   result is the set of heaps the call may leave *)
broaden_selectors(h, step, context) ==
    IF DictGet(h[step], "action", None) \in {"click", "fill", "extract"}
    THEN {IF Len(l) > 1 THEN Put(h, step, [fallback_selectors |-> Tail(l)]) ELSE h :
              l \in list_of_set(NonEmptySelectors(h[step]))}
    ELSE {h}

add_timeouts(h, step, context) ==
    LET h1 == IF "timeout" \in DOMAIN h[step]
              THEN Put(h, step, [timeout |-> Min((h[step]["timeout"] * 3) \div 2, 30000)])
              ELSE Put(h, step, [timeout |-> 10000])
        action == DictGet(h[step], "action", None)
    IN  IF action = "extract" /\ DictGet(context, "spa", FALSE)
        THEN {Put(h1, step, [wait_for |-> "networkidle"])}
        ELSE IF action = "extract" THEN {Put(h1, step, [wait_for |-> "domcontentloaded"])}
        ELSE {h1}

switch_to_api_mode(h, step, context) ==
    IF DictGet(h[step], "action", None) = "extract" /\ DictGet(context, "api_endpoints", <<>>) # <<>>
    THEN {Put(h, step, [action |-> "api_extract",
                        api_endpoint |-> context["api_endpoints"][1],
                        comment |-> <<DictGet(h[step], "comment", "Extract"), " (API fallback)">>])}
    ELSE {Put(h, step, [stealth_mode |-> TRUE, delay |-> 5000])}

simplify_javascript(h, step, context) ==
    IF DictGet(h[step], "action", None) = "extract"
    THEN LET original_fields == IF "fields" \in DOMAIN h[step]
                                THEN h[h[step]["fields"].ref] ELSE EmptyDict
             simplified_fields ==
                 [field_name \in DOMAIN original_fields |->
                     IF field_name \in {"title", "text", "content"}
                     THEN "h1, h2, h3, p, div, span"
                     ELSE original_fields[field_name]]
             h1 == Append(h, simplified_fields)
         IN  {Put(h1, step, [fields |-> Ref(Len(h1)), simplified |-> TRUE])}
    ELSE {h}

add_wait_conditions(h, step, context) ==
    LET h1 == Put(h, step, [wait_until |-> "networkidle", timeout |-> 15000])
    IN  IF DictGet(context, "spa", FALSE)
        THEN {Put(h1, step, [wait_for_selector |-> "body[data-loaded], main, .content"])}
        ELSE {h1}

handle_rate_limit(h, step, context) ==
    {Put(h, step, [rate_limited |-> TRUE,
                   delay |-> Min(300, 30 * Pow(2, DictGet(context, "retry_count", 0))),
                   use_proxy |-> TRUE, user_agent_rotation |-> TRUE])}

default_fallback(h, step, context) ==
    {Put(h, step, [fallback_attempted |-> TRUE,
                   retry_count |-> Min(DictGet(h[step], "retry_count", 0) + 1, 3),
                   retry_delay |-> 2000])}

(* The strategies that only set fixed keys *)
fixed_keys(error_type) ==
    CASE error_type = "network_error" -> [retry_count |-> 3, retry_delay |-> 2000]
      [] error_type = "dns_error" ->
             [dns_retry |-> TRUE, timeout |-> 30000, use_alternate_dns |-> TRUE]
      [] error_type = "ssl_error" -> [ignore_ssl_errors |-> TRUE, ssl_retry |-> TRUE]
      [] error_type = "connection_error" ->
             [connection_retry |-> TRUE, timeout |-> 20000, retry_delay |-> 5000]
      [] error_type = "server_error" ->
             [server_error_retry |-> TRUE, retry_delay |-> 10000, max_server_retries |-> 2]
      [] error_type = "memory_error" ->
             [restart_browser |-> TRUE, reduce_concurrency |-> TRUE, clear_cache |-> TRUE]
      [] error_type = "encoding_error" ->
             [encoding_fallback |-> TRUE,
              try_encodings |-> <<"utf-8", "latin-1", "iso-8859-1", "cp1252">>]
      [] error_type = "json_parse_error" ->
             [json_fallback |-> TRUE, skip_malformed_json |-> TRUE]
      [] error_type = "stale_element" ->
             [stale_element_retry |-> TRUE, refind_element |-> TRUE,
              wait_before_refind |-> 1000]
      [] error_type = "frame_error" -> [frame_fallback |-> TRUE, try_main_frame_first |-> TRUE]
      [] error_type = "dialog_error" -> [auto_dismiss_dialogs |-> TRUE, dialog_timeout |-> 5000]
      [] error_type = "ajax_error" ->
             [ajax_retry |-> TRUE, wait_for_ajax |-> TRUE, ajax_timeout |-> 10000]
      [] error_type = "cpu_timeout" ->
             [cpu_timeout_retry |-> TRUE, simplify_processing |-> TRUE,
              script_timeout |-> 30000]

FixedKeyKinds ==
    {"network_error", "dns_error", "ssl_error", "connection_error", "server_error",
     "memory_error", "encoding_error", "json_parse_error", "stale_element",
     "frame_error", "dialog_error", "ajax_error", "cpu_timeout"}

strategy_map(error_type, h, step, context) ==
    CASE error_type = "selector_not_found" -> broaden_selectors(h, step, context)
      [] error_type = "timeout" -> add_timeouts(h, step, context)
      [] error_type = "bot_detection" -> switch_to_api_mode(h, step, context)
      [] error_type = "javascript_error" -> simplify_javascript(h, step, context)
      [] error_type = "page_load_error" -> add_wait_conditions(h, step, context)
      [] error_type = "rate_limit" -> handle_rate_limit(h, step, context)
      [] error_type \in FixedKeyKinds -> {Put(h, step, fixed_keys(error_type))}
      [] OTHER -> default_fallback(h, step, context)

(* context or {}: the argument is None by default *)
or_empty(context) == IF context.none THEN EmptyDict ELSE context.dict

(* The outcomes of get_fallback_strategy(error_type, original_step, context)
   on the heap h: the heap it leaves and the object it returns *)
get_fallback_strategy(error_type, h, original_step, context) ==
    LET ctx == or_empty(context)
        fallback_step == deepcopy(h, original_step)
    IN  {[heap |-> h2, returned |-> fallback_step.id] :
             h2 \in strategy_map(error_type, fallback_step.heap, fallback_step.id, ctx)}

(* The calls made: steps that differ in action, locator and element, steps
   that differ in timeout, field mapping and retry count *)
ActionTags == {None, "click", "fill", "extract", "navigate"}

Elements == {<<>>, <<"a">>}

Selectors ==
    CharSeqs(MaxSelLen) \cup {data_testid(el) : el \in Elements}
                        \cup {aria_label(el) : el \in Elements}

SelectorArgs ==
    {[has |-> FALSE, v |-> <<>>]} \cup {[has |-> TRUE, v |-> s] : s \in Selectors}

StepArgs ==
    {[action |-> a, selector |-> s, element |-> el, timeout |-> 0, fields |-> FALSE,
      retry_count |-> 0] : a \in ActionTags, s \in SelectorArgs, el \in Elements}
    \cup
    {[action |-> a, selector |-> [has |-> TRUE, v |-> <<"#", "a">>], element |-> <<>>,
      timeout |-> t, fields |-> f, retry_count |-> r] :
        a \in ActionTags, t \in {0, 5000, 30000}, f \in BOOLEAN, r \in {0, 3}}

(* The caller's step is object 1, its field mapping, if any, object 2 *)
StepOf(a) ==
    Key("action", a.action # None, a.action) @@ Key("selector", a.selector.has, a.selector.v)
    @@ Key("element", a.element # <<>>, a.element) @@ Key("timeout", a.timeout # 0, a.timeout)
    @@ Key("fields", a.fields, Ref(2)) @@ Key("retry_count", a.retry_count # 0, a.retry_count)

FieldsOf == [title |-> "h2.title", price |-> ".price"]

HeapOf(a) == IF a.fields THEN <<StepOf(a), FieldsOf>> ELSE <<StepOf(a)>>

RecoveryContexts ==
    {[none |-> TRUE, dict |-> EmptyDict],
     [none |-> FALSE, dict |-> EmptyDict],
     [none |-> FALSE, dict |-> [spa |-> TRUE]],
     [none |-> FALSE, dict |-> [api_endpoints |-> <<"/api/items">>]],
     [none |-> FALSE, dict |-> [retry_count |-> 4]]}

RecoveryTags == Tags \cup {"network_error"}

RecoveryFrame == UNCHANGED <<rateVars, retryVars, runVars, pagVars>>

ProbeFallback ==
    /\ probe = NoProbe
    /\ \E error_type \in RecoveryTags, a \in StepArgs, context \in RecoveryContexts :
          \E out \in get_fallback_strategy(error_type, HeapOf(a), 1, context) :
              probe' = [fn |-> "get_fallback_strategy", error_type |-> error_type,
                        context |-> context, before |-> HeapOf(a),
                        heap |-> out.heap, returned |-> out.returned]
    /\ RecoveryFrame

ProbeShouldAttempt ==
    /\ probe = NoProbe
    /\ \E error_type \in RecoveryTags, attempt_count \in 0..MaxAttemptCount :
          probe' = [fn |-> "should_attempt_recovery", error_type |-> error_type,
                    attempt_count |-> attempt_count,
                    result |-> should_attempt_recovery(error_type, attempt_count)]
    /\ RecoveryFrame

InitRecovery == RateIdle /\ RetryIdle /\ RunIdle /\ PagIdle

NextRecovery ==
    \/ ProbeFallback
    \/ ProbeShouldAttempt

SpecRecovery == InitRecovery /\ [][NextRecovery]_vars

(***************************************************************************)
(* Properties of the recovery manager                                      *)
(***************************************************************************)

FallbackCalled == probe.fn = "get_fallback_strategy"

(* The objects the caller handed in: its step and the step's field mapping *)
InputObjects == 1..Len(probe.before)

ReturnedStep == probe.heap[probe.returned]

(* C13: get_fallback_strategy never changes its input: the caller's step
   and its nested field mapping are after the call what they were before,
   for every kind, step and context, and the step returned is another
   object, which shares no nested mapping with the input. *)
C13_InputNeverMutated ==
    FallbackCalled =>
        /\ \A i \in InputObjects : probe.heap[i] = probe.before[i]
        /\ probe.returned \notin InputObjects
        /\ \A k \in DOMAIN ReturnedStep \cap NestedKeys :
               ReturnedStep[k].ref \notin InputObjects

C13_Witness ==
    /\ FallbackCalled
    /\ probe.error_type = "javascript_error"
    /\ Len(probe.before) = 2
    /\ "simplified" \in DOMAIN ReturnedStep
    /\ "simplified" \notin DOMAIN probe.heap[1]
    /\ probe.heap[ReturnedStep["fields"].ref]["title"] = "h1, h2, h3, p, div, span"
    /\ probe.heap[2]["title"] = "h2.title"

RecoveryAsked == probe.fn = "should_attempt_recovery"

(* C17 as stated: should_attempt_recovery is false at every attempt count
   for each of the eight kinds that are never retried. *)
C17_NeverForTheEightKinds ==
    RecoveryAsked /\ probe.error_type \in NonRetryableKinds => probe.result = FALSE

(* C17: should_attempt_recovery is false at every attempt count for
   memory_error, disk_space_error, ip_blocked, geo_blocked, forbidden and
   not_found; for bot_detection and captcha_detected it is true while the
   attempt count is at most 1 and false once it is above 1. *)
C17_NeverForSixOnceForTwo ==
    RecoveryAsked =>
        /\ probe.error_type \in NonRetryableKinds \ {"bot_detection", "captcha_detected"}
               => probe.result = FALSE
        /\ probe.error_type \in {"bot_detection", "captcha_detected"}
               => (probe.result = FALSE <=> probe.attempt_count > 1)

C17_Witness ==
    /\ RecoveryAsked
    /\ probe.error_type = "captcha_detected"
    /\ probe.attempt_count = 1
    /\ probe.result = TRUE

BroadenCalled ==
    /\ FallbackCalled
    /\ probe.error_type = "selector_not_found"

OriginalSelector == DictGet(probe.before[1], "selector", <<>>)

Alternates == ReturnedStep["fallback_selectors"]

HasAlternate ==
    /\ "fallback_selectors" \in DOMAIN ReturnedStep
    /\ \E i \in 1..Len(Alternates) : Alternates[i] # OriginalSelector

(* C18: for every step, whatever its action and with or without a
   selector, get_fallback_strategy("selector_not_found", step, {}) returns
   a step with a list of fallback selectors of which at least one is not
   the original selector. *)
C18_AlternateForEveryStep ==
    BroadenCalled /\ ~probe.context.none /\ probe.context.dict = EmptyDict => HasAlternate

(* What the code does give: an alternate for the actions click, fill and
   extract when the original selector is not one of the two attribute
   selectors of the step *)
AlternateForElementActions ==
    /\ BroadenCalled
    /\ DictGet(probe.before[1], "action", None) \in {"click", "fill", "extract"}
    /\ OriginalSelector \notin {data_testid(DictGet(probe.before[1], "element", <<>>)),
                                aria_label(DictGet(probe.before[1], "element", <<>>))}
    => HasAlternate

NoDuplicateAlternates ==
    BroadenCalled /\ "fallback_selectors" \in DOMAIN ReturnedStep =>
        \A i, j \in 1..Len(Alternates) : Alternates[i] = Alternates[j] => i = j

(* C19: the list of fallback selectors attached for selector_not_found has
   no selector twice and does not hold the original selector, whatever the
   original selector and whatever order the set gives the candidates. *)
C19_DistinctAndWithoutOriginal ==
    BroadenCalled /\ "fallback_selectors" \in DOMAIN ReturnedStep =>
        /\ \A i, j \in 1..Len(Alternates) : Alternates[i] = Alternates[j] => i = j
        /\ \A i \in 1..Len(Alternates) : Alternates[i] # OriginalSelector

(***************************************************************************)
(* The sleep of execute_with_retry (lines 67-77) at any attempt index: the *)
(* caller chooses max_retries freely, so the attempt that fails may be any *)
(* index below it.  One step from the failure caught to the delay slept.   *)
(***************************************************************************)

MaxAttemptIndex == 10

E_server == Exc("Exception", {"503"})

E_dns == Exc("Exception", {"dns"})

E_blocked == Exc("Exception", {"blocked"})

DelayFailures ==
    {E_rate_limit, E_timeout, E_server, E_dns, E_unknown, E_forbidden, E_captcha, E_blocked}

(* context["retry_after"] and the retry_after argument, in ms *)
DelayHints == {NoHint, 30000, 2000000}

ProbeSleep ==
    /\ probe = NoProbe
    /\ \E e \in DelayFailures, attempt \in 0..MaxAttemptIndex,
          context_retry_after \in DelayHints, arg \in DelayHints,
          jitter \in JitterPercents :
          LET error_type == classify_error(e)
              retry_after == context_retry_after
          IN  /\ should_retry(error_type)
              /\ probe' = [fn |-> "sleep", error |-> e, error_type |-> error_type,
                           attempt |-> attempt,
                           context_retry_after |-> context_retry_after,
                           retry_after |-> arg, jitter |-> jitter,
                           delay |-> calculate_delay(error_type, attempt,
                                                     retry_after, jitter)]
    /\ UNCHANGED <<rateVars, retryVars, runVars, pagVars>>

(* a failure of a kind that is not retried is raised without a sleep *)
ProbeRaise ==
    /\ probe = NoProbe
    /\ \E e \in DelayFailures, attempt \in 0..MaxAttemptIndex :
          /\ ~should_retry(classify_error(e))
          /\ probe' = [fn |-> "raise", error |-> e, error_type |-> classify_error(e),
                       attempt |-> attempt]
    /\ UNCHANGED <<rateVars, retryVars, runVars, pagVars>>

InitDelay == RateIdle /\ RetryIdle /\ RunIdle /\ PagIdle

NextDelay ==
    \/ ProbeSleep
    \/ ProbeRaise

SpecDelay == InitDelay /\ [][NextDelay]_vars

(* The ceilings, in ms *)
Ceiling(kind) ==
    CASE kind = "rate_limit" -> 1800 * 1000
      [] kind = "bot_detection" -> 3600 * 1000
      [] kind = "ip_blocked" -> 7200 * 1000
      [] OTHER -> 300 * 1000

Slept == probe.fn = "sleep"

HintUsed == probe.context_retry_after # NoHint /\ probe.error_type = "rate_limit"

(* C20 as stated: every delay slept before a retry is at most the ceiling
   of the failure's kind, for every attempt index, jitter and context. *)
C20_EveryDelayUnderCeiling == Slept => probe.delay <= Ceiling(probe.error_type)

(* C20: every delay slept before a retry is at most the ceiling of the
   failure's kind, for every attempt index and jitter, unless the context
   carries a retry-after hint and the kind is rate_limit: then the delay is
   the hint times 1.2, above the ceiling or not. *)
C20_DelayUnderCeilingOrHint ==
    Slept =>
        /\ ~HintUsed => probe.delay <= Ceiling(probe.error_type)
        /\ HintUsed => probe.delay = (probe.context_retry_after * 12) \div 10

C20_Witness ==
    /\ Slept
    /\ probe.error_type = "rate_limit"
    /\ probe.context_retry_after = NoHint
    /\ probe.attempt = 5
    /\ probe.jitter = 100
    /\ probe.delay = 1800 * 1000

SuppliedHints == {probe.retry_after, probe.context_retry_after} \ {NoHint}

ComputedBackoff ==
    Min((exponential_delay(probe.error_type, probe.attempt) * probe.jitter) \div 100,
        Ceiling(probe.error_type))

(* C21: when the caller gives a retry-after hint h, as the retry_after
   argument or in the context, and the attempt fails with rate_limit, the
   sleep is exactly 1.2 * h and not the computed backoff; for a failure of
   any other kind the hint changes nothing. *)
C21_AnyHintOverridesForRateLimit ==
    Slept =>
        /\ probe.error_type = "rate_limit" /\ SuppliedHints # {}
               => \E h \in SuppliedHints : probe.delay = (h * 12) \div 10
        /\ probe.error_type # "rate_limit" => probe.delay = ComputedBackoff

(* What the code does give: the hint of the context overrides, the hint of
   the argument alone is lost, other kinds are not touched *)
ContextHintOverrides ==
    Slept =>
        /\ probe.error_type = "rate_limit" /\ probe.context_retry_after # NoHint
               => probe.delay = (probe.context_retry_after * 12) \div 10
        /\ probe.error_type = "rate_limit" /\ probe.context_retry_after = NoHint
               => probe.delay = ComputedBackoff
        /\ probe.error_type # "rate_limit" => probe.delay = ComputedBackoff

(***************************************************************************)
(* execute_with_retry called with its default max_retries on an operation  *)
(* that fails with the kinds should_retry calls limited.                   *)
(***************************************************************************)

DefaultMaxRetries == 3

E_ssl == Exc("Exception", {"ssl"})

LimitedOutcomes == {Ok("r1")} \cup {Raise(e) : e \in {E_dns, E_ssl, E_server}}

CallDefault(c) ==
    /\ retry[c].pc = "idle"
    /\ calls_made < MaxCalls
    /\ \E name \in OpNames, ctx \in RetryAfterHints :
           retry' = [retry EXCEPT ![c] = StartCall(name, DefaultMaxRetries, ctx, NoHint)]
    /\ calls_made' = calls_made + 1
    /\ UNCHANGED <<failure_counts, failed_since, rateVars, runVars, pagVars, probe>>

InvokeLimited(c) ==
    /\ \E o \in LimitedOutcomes, jitter \in JitterPercents : InvokeCore(c, o, jitter)
    /\ UNCHANGED <<rateVars, runVars, pagVars, probe>>

NextLimited ==
    \/ \E c \in OneCaller : CallDefault(c)
    \/ \E c \in OneCaller : InvokeLimited(c)
    \/ \E c \in OneCaller : Wake(c)
    \/ \E c \in OneCaller : Done(c)

SpecLimited == InitRetry /\ [][NextLimited]_vars

(* C22: an operation that always fails with dns_error, ssl_error or
   server_error is retried under a tighter cap than the default: called
   with max_retries = 3, fewer than 4 attempts are made before the failure
   is raised. *)
C22_LimitedKindsTighterCap ==
    \A c \in Callers :
        /\ retry[c].pc = "raised"
        /\ retry[c].max_retries = DefaultMaxRetries
        /\ classify_error(retry[c].exc) \in limited_retry_types
        => retry[c].invocations < DefaultMaxRetries + 1

(* What the code does give: the cap of every retried kind, max_retries + 1 *)
AtMostMaxRetriesPlusOne ==
    \A c \in Callers : retry[c].invocations <= Max(0, retry[c].max_retries + 1)

(***************************************************************************)
(* Two runs in one event loop call execute_with_retry on one RetryManager. *)
(* A coroutine runs alone from one await to the next: from the failure of  *)
(* step_func to asyncio.sleep (lines 54-77) no other run is scheduled.     *)
(* Each run makes one call; nobody calls reset_failure_count.              *)
(***************************************************************************)

SharedOutcomes == {Ok("r1"), Raise(E_timeout), Raise(E_forbidden)}

CallShared(c) ==
    /\ retry[c].pc = "idle"
    /\ \E name \in OpNames, max_retries \in 0 .. MaxRetriesBound :
           retry' = [retry EXCEPT ![c] = StartCall(name, max_retries, NoHint, NoHint)]
    /\ calls_made' = calls_made + 1
    /\ UNCHANGED <<failure_counts, failed_since, rateVars, runVars, pagVars, probe>>

InvokeShared(c) ==
    /\ \E o \in SharedOutcomes, jitter \in RunJitter : InvokeCore(c, o, jitter)
    /\ UNCHANGED <<rateVars, runVars, pagVars, probe>>

NextShared ==
    \/ \E c \in Callers : CallShared(c)
    \/ \E c \in Callers : InvokeShared(c)
    \/ \E c \in Callers : Wake(c)

SpecShared == InitRetry /\ [][NextShared]_vars

(* the attempts of run c on the operation name n that have failed *)
FailedAttempts(c, n) ==
    IF retry[c].step_name = n
    THEN retry[c].invocations - (IF retry[c].pc = "returned" THEN 1 ELSE 0)
    ELSE 0

RECURSIVE SumFailed(_, _)
SumFailed(cs, n) ==
    IF cs = {} THEN 0
    ELSE LET c == CHOOSE x \in cs : TRUE IN FailedAttempts(c, n) + SumFailed(cs \ {c}, n)

NoSuccess(n) == \A c \in Callers : retry[c].step_name = n => retry[c].pc # "returned"

(* C23: when several runs call execute_with_retry on one RetryManager with
   the same operation name, none of their invocations succeeds and nobody
   resets, the failure counter of the name is the number of failed
   attempts of all the runs together: no update is lost. *)
C23_NoLostCounterUpdate ==
    \A n \in OpNames : NoSuccess(n) => failure_count(n) = SumFailed(Callers, n)

C23_Witness ==
    /\ retry["c1"].step_name = "op_a" /\ retry["c2"].step_name = "op_a"
    /\ retry["c1"].pc = "sleeping" /\ retry["c2"].pc = "sleeping"
    /\ retry["c1"].invocations = 2 /\ retry["c2"].invocations = 1
    /\ failure_count("op_a") = 3

(***************************************************************************)
(* One task calling wait_if_needed for the same URL again and again, often *)
(* enough for the history of the domain to be full.                        *)
(***************************************************************************)

MaxHistoryCalls == 102

WaitOften(task) ==
    /\ wait_calls < MaxHistoryCalls
    /\ WaitStartCore(task, Url("D.com"))
    /\ wait_calls' = wait_calls + 1
    /\ UNCHANGED <<config_calls, retryVars, runVars, pagVars, probe>>

NextHistory ==
    \/ WaitOften("w1")
    \/ WakeGlobal("w1")
    \/ WakeDomain("w1")
    \/ SetDomainDelay

SpecHistory == InitRate /\ [][NextHistory]_vars

(* the wait_if_needed calls for a URL of the domain that have returned *)
Completed(domain) ==
    Cardinality({i \in 1..Len(returns) : Lower(returns[i].netloc) = domain})

(* C24: in every state the history of every domain holds at most 100
   timestamps, and every wait_if_needed call that has returned has added
   one timestamp, the time it started at, to the history of the domain of
   its URL (the oldest one leaves when there are more than 100). *)
C24_HistoryBoundedOnePerCall ==
    \A domain \in Netlocs :
        /\ Len(request_history[domain]) <= 100
        /\ Len(request_history[domain]) = Min(100, Completed(domain))
        /\ Len(returns) > 0 /\ Lower(returns[Len(returns)].netloc) = domain
               => request_history[domain][Len(request_history[domain])]
                      = returns[Len(returns)].started

C24_Witness ==
    /\ Completed("d.com") = 102
    /\ Len(request_history["d.com"]) = 100
    /\ request_history["d.com"][100] = returns[102].started
    /\ request_history["d.com"][1] = returns[3].started

(* C25: for each step the run loop asks for at most one fallback strategy
   and runs the transformed step through execute_with_retry, under the
   recovery name of the step; a recovery that failed is not recovered
   again, so a step makes at most two execute_with_retry calls. *)
C25_OneRecoveryPerStep ==
    /\ log.fallbacks <= 1
    /\ log.calls <= 2
    /\ log.calls = (IF log.idx = 0 THEN 0 ELSE 1) + log.fallbacks
    /\ run.pc = "recovery" =>
           /\ log.recovery = "running"
           /\ log.fallbacks = 1
           /\ retry["run"].pc # "idle"
           /\ retry["run"].step_name = recovery_name(step_name(run.idx, run.step))
           /\ retry["run"].max_retries = RecoveryRetries
    /\ log.recovery = "failed" => run.pc # "recovery" /\ log.outcome \in {"aborted", "skipped"}

C25_Witness ==
    /\ log.recovery = "failed"
    /\ log.outcome = "skipped"
    /\ log.calls = 2
    /\ log.fallbacks = 1
    /\ log.idx = 1
    /\ run.idx = 2

(* C26: auto_paginate moves to another page (a click on a next button or
   the fallback scroll) only between two extractions: a run that called
   extract_fn k times has moved at most k - 1 times, whether it stopped at
   max_pages or on a page without new items. *)
C26_MovesOnlyBetweenExtractions ==
    pag.pc = "returned" /\ pag.calls >= 1 => pag.moves <= pag.calls - 1

(* What the code does give: k - 1 moves when the run stops on a page
   without new items, k moves when it stops at max_pages *)
MovesAfterEveryFruitfulPage ==
    pag.pc = "returned" /\ pag.calls >= 1 =>
        pag.moves = IF pag.stopped_at > 0 THEN pag.calls - 1 ELSE pag.calls

(***************************************************************************)
(* One execute_with_retry call on an operation that fails with the same    *)
(* failure at every attempt, with enough retries for the ceilings to be    *)
(* reached.  probe keeps the delay and the jitter of the sleep before.     *)
(***************************************************************************)

BackoffFailures == {E_rate_limit, E_timeout, E_server, E_dns, E_unknown}

NoSleepYet == [fn |-> "backoff", sleeps |-> 0, delay |-> 0, jitter |-> 100,
               prev_delay |-> 0, prev_jitter |-> 100]

CallBackoff(c) ==
    /\ retry[c].pc = "idle"
    /\ probe = NoProbe
    /\ retry' = [retry EXCEPT ![c] = StartCall("op_a", MaxAttemptIndex + 1, NoHint, NoHint)]
    /\ calls_made' = calls_made + 1
    /\ probe' = NoSleepYet
    /\ UNCHANGED <<failure_counts, failed_since, rateVars, runVars, pagVars>>

InvokeBackoff(c) ==
    /\ \E e \in BackoffFailures, jitter \in JitterPercents :
          /\ retry[c].invocations > 0 => Raise(e) = retry[c].last
          /\ InvokeCore(c, Raise(e), jitter)
          /\ probe' = IF retry'[c].pc = "sleeping"
                      THEN [fn |-> "backoff", sleeps |-> retry'[c].sleeps,
                            delay |-> retry'[c].delay, jitter |-> jitter,
                            prev_delay |-> probe.delay, prev_jitter |-> probe.jitter]
                      ELSE probe
    /\ UNCHANGED <<rateVars, runVars, pagVars>>

NextBackoff ==
    \/ \E c \in OneCaller : CallBackoff(c)
    \/ \E c \in OneCaller : InvokeBackoff(c)
    \/ \E c \in OneCaller : Wake(c)

SpecBackoff == InitRetry /\ [][NextBackoff]_vars

(* Two sleeps of the call have begun; the later one is before retry k + 1 *)
SecondSleep == probe.fn = "backoff" /\ probe.sleeps >= 2

BackoffKind == classify_error(retry["c1"].last.exc)

(* The delays of the model are whole milliseconds, cut twice *)
Rounding == 2

(* The two delays without any rounding, both times 100 * den^(k+1) and in
   units of 500 ms, k being the attempt index of the earlier sleep *)
ExactLater ==
    LET g == growth(BackoffKind)
        k == probe.sleeps - 2
    IN  Min((base_delays(BackoffKind) \div 500) * Pow(g.num, k + 1) * probe.jitter,
            (max_delays(BackoffKind) \div 500) * 100 * Pow(g.den, k + 1))

ExactEarlier ==
    LET g == growth(BackoffKind)
        k == probe.sleeps - 2
    IN  Min((base_delays(BackoffKind) \div 500) * Pow(g.num, k) * g.den * probe.prev_jitter,
            (max_delays(BackoffKind) \div 500) * 100 * Pow(g.den, k + 1))

(* C27: in one execute_with_retry call whose failures all have the same
   retryable kind and no retry-after hint, the delay slept before retry
   k + 1 is never smaller than the delay slept before retry k, whatever the
   two jitter draws in [0.8, 1.2], for the growth of rate_limit and for that
   of the other kinds, with the ceiling applied. *)
C27_DelaysNeverShrink ==
    SecondSleep =>
        /\ ExactLater >= ExactEarlier
        /\ probe.delay + Rounding >= probe.prev_delay
        /\ probe.jitter = probe.prev_jitter => probe.delay >= probe.prev_delay

C27_Witness ==
    /\ SecondSleep
    /\ BackoffKind = "timeout"
    /\ probe.prev_jitter = 120 /\ probe.jitter = 80
    /\ probe.sleeps = 2
    /\ probe.prev_delay = 6000 /\ probe.delay = 6000

CeilingReached ==
    /\ SecondSleep
    /\ probe.prev_delay = max_delays(BackoffKind)
    /\ probe.delay = max_delays(BackoffKind)

(***************************************************************************)
(* The delay-setting calls of RateLimiter one after another, as the agent  *)
(* makes them: check_robots gives a crawl-delay to set_domain_delay, a 429 *)
(* answer gives its Retry-After to update_from_retry_after.  probe keeps,  *)
(* per key, the largest floor an update_from_retry_after call has left.    *)
(***************************************************************************)

MaxFloorCalls == 3

NoFloors == [fn |-> "floors",
             established |-> [d \in Netlocs |-> 0],
             since_set |-> [d \in Netlocs |-> 0]]

Floors == IF probe = NoProbe THEN NoFloors ELSE probe

FloorFrame ==
    /\ probe = NoProbe \/ probe.fn = "floors"
    /\ config_calls < MaxFloorCalls
    /\ config_calls' = config_calls + 1
    /\ UNCHANGED <<now, request_history, last_request_time, global_last_request,
                   rl, wait_calls, returns, retryVars, runVars, pagVars>>

(* a floor given outright forgets nothing in the history, and starts anew
   the part of it since the last outright setting *)
FloorSet(domain) ==
    probe' = [Floors EXCEPT !.since_set[domain] = 0]

FloorRaised(domain) ==
    probe' = [Floors EXCEPT
                 !.established[domain] = Max(@, domain_delays'[domain]),
                 !.since_set[domain] = Max(@, domain_delays'[domain])]

CrawlDelay ==
    /\ \E domain \in Netlocs, delay \in DelayChoices :
           set_domain_delay(domain, delay) /\ FloorSet(domain)
    /\ FloorFrame

ServerRetryAfter ==
    /\ \E domain \in Netlocs, retry_after \in RetryAfterChoices :
           update_from_retry_after(domain, retry_after) /\ FloorRaised(domain)
    /\ FloorFrame

PoliteRate ==
    /\ \E domain \in Netlocs, rpm \in RateChoices :
           set_polite_delay(domain, rpm) /\ FloorSet(domain)
    /\ FloorFrame

NextFloors == CrawlDelay \/ ServerRetryAfter \/ PoliteRate

SpecFloors == InitRate /\ [][NextFloors]_vars

(* C28: across any sequence of set_domain_delay, set_polite_delay and
   update_from_retry_after calls, the floor of a domain never drops below a
   value that an earlier update_from_retry_after call established for it. *)
C28_RetryAfterFloorKept ==
    \A d \in Netlocs : domain_delays[d] >= Floors.established[d]

(* What the code keeps: the floor is not below what update_from_retry_after
   established since the last set_domain_delay or set_polite_delay *)
RetryAfterFloorKeptUntilSet ==
    \A d \in Netlocs : domain_delays[d] >= Floors.since_set[d]

(* The operation name of the step the log entry is about (line 779) *)
LoggedName == step_name(log.idx, run.steps[log.idx])

(* C29: in the run loop, after a step has completed successfully, in its
   primary execution or through its recovery attempt, the failure counter
   kept under the operation name of that step is 0. *)
C29_CounterZeroAfterSuccess ==
    log.outcome \in {"ok", "recovered"} => failure_count(LoggedName) = 0

(* What the code keeps: the counter of the name under which the successful
   call was made is 0, which after a recovery is the recovery's name *)
CounterZeroUnderSucceededName ==
    /\ log.outcome = "ok" => failure_count(LoggedName) = 0
    /\ log.outcome = "recovered" => failure_count(recovery_name(LoggedName)) = 0

(* The kinds the cascade of classify_error has a rule for *)
RuleKinds == {rules(NoExc)[i][1] : i \in 1..Len(rules(NoExc))}

(* C30: every kind for which the cascade of classify_error has a rule is
   reachable: some failure message is classified as that kind, no rule is
   entirely shadowed by the rules placed before it. *)
C30_EveryRuleKindReachable ==
    probe.fn = "reached" /\ probe.kind \in RuleKinds => probe.reached

(* The place of a kind's rule in the cascade *)
RuleIndex(kind) == CHOOSE i \in 1..Len(rules(NoExc)) : rules(NoExc)[i][1] = kind

(* What the code gives: every kind with a rule but stale_element is
   reached, and a failure that satisfies the rule of stale_element has
   satisfied an earlier rule *)
OnlyStaleElementShadowed ==
    /\ probe.fn = "reached" /\ probe.kind \in RuleKinds =>
           (probe.reached <=> probe.kind # "stale_element")
    /\ probe.fn = "classify_error" /\ RuleIndex("stale_element") \in Matching(probe.error) =>
           \E i \in Matching(probe.error) : i < RuleIndex("stale_element")
====
